---- MODULE Spec2Model ----
(***************************************************************************)
(* A model of the measurement engine of speedtest.py: the download phase   *)
(* (DownloadTest.run_download_test with its download_worker threads), the  *)
(* upload phase (DownloadTest.run_upload_test with ProgressTracker.read),  *)
(* the background latency monitor (concurrent_ping_monitor) and the        *)
(* orchestration of SpeedTest.run_test; and of what surrounds it: the      *)
(* cookie store (CookieManager) and the menu application (MenuHandler,     *)
(* AuthManager, ServerSelectionUI, SettingsManager).                       *)
(*                                                                         *)
(* Time is discrete: one tick is 100 ms, the cadence of the polling loop   *)
(* and of the instantaneous speed samples.  Every duration of the code is  *)
(* written in ticks.  A speed, a quotient of two floats in the code, is an *)
(* exact fraction in lowest terms, <<numerator, denominator>>.             *)
(***************************************************************************)
EXTENDS Integers, Sequences, FiniteSets, TLC

(***************************************************************************)
(* Bounds of the model.                                                    *)
(***************************************************************************)
MaxConnections == 2
MaxReads == 2
ShortDuration == 3
MaxDuration == 30
MaxPings == 2
MaxChunks == 3
LongDelay == 11
MaxReplies == 2
SqrtLimit == 32768
UploadStall == 35
ShortTest == 50
MaxSamples == 3

(***************************************************************************)
(* Constants of the program, durations in ticks of 100 ms.                 *)
(***************************************************************************)
chunk_size == 10240
SampleInterval == 1
PollInterval == 1
skip_duration == 3
CleanupBuffer == 5
FutureTimeout == 10
StragglerWait == 10
\* asyncio.sleep(0.05), rounded up to one tick
DrainSleep == 1
RetrySleep == 1
MaxRetries == 5
PingSleep == 2
MonitorMargin == 20
measurement_start == 30
measurement_end == 120
measurement_window == 90
PostTimeout == 50
ProbeTimeout == 20
TicksPerSecond == 10
num_pings == 10

Hosts == {"", "host"}
Latencies == {0, 20}
\* max_duration: shorter than the cleanup buffer, and the 30 s of run_test
Durations == {ShortDuration, MaxDuration}
\* test_duration: a short one, and the 15 s of run_test
FullTest == 150
\* max_duration=30 of run_test
RunMaxDuration == 300
TestDurations == {ShortTest, FullTest}
\* how long a blocking network operation takes: within the tick, one tick,
\* or a stall longer than the timeout of future.result
Delays == {0, 1, LongDelay}

(***************************************************************************)
(* Arithmetic: exact fractions for the float quotients of the code.        *)
(***************************************************************************)
RECURSIVE GCD(_, _)
GCD(a, b) == IF b = 0 THEN a ELSE GCD(b, a % b)

Frac(n, d) == LET g == GCD(n, d) IN <<n \div g, d \div g>>

Zero == <<0, 1>>

RECURSIVE SumSeq(_)
SumSeq(s) == IF s = <<>> THEN 0 ELSE Head(s) + SumSeq(Tail(s))

SetMin(S) == CHOOSE x \in S : \A y \in S : x <= y
SetMax(S) == CHOOSE x \in S : \A y \in S : x >= y

RECURSIVE Insert(_, _)
Insert(x, s) ==
    IF s = <<>> THEN <<x>>
    ELSE IF x <= Head(s) THEN <<x>> \o s
    ELSE <<Head(s)>> \o Insert(x, Tail(s))

RECURSIVE sorted(_)
sorted(s) == IF s = <<>> THEN <<>> ELSE Insert(Head(s), sorted(Tail(s)))

Range(s) == {s[i] : i \in DOMAIN s}

EmptyDict == <<>>

\* Optional[...]: None, or a value
None == [none |-> TRUE]
Some(list) == [value |-> list]

(***************************************************************************)
(* The cookie store: one JSON file, a dict from e-mail to an entry, which  *)
(* CookieManager and ServerManager._save_client_auth read and rewrite as a *)
(* whole.  A dict is a function on its keys, {} is the empty function; a   *)
(* timestamp is the clock at the time of the call.                         *)
(***************************************************************************)
\* cookies_file.exists() is false
NoFile == [exists |-> FALSE, data |-> <<>>]

\* d[key] = value
SetItem(d, key, value) ==
    [k \in DOMAIN d \cup {key} |-> IF k = key THEN value ELSE d[k]]

\* del d[key]
DelItem(d, key) == [k \in DOMAIN d \ {key} |-> d[k]]

\* lines 75-79: json.load(f) if the file exists, else {}
LoadAll(file) == IF file.exists THEN file.data ELSE <<>>

\* lines 98-99: json.dump(all_data, f)
Dump(all_data) == [exists |-> TRUE, data |-> all_data]

\* "if x:" of an Optional[dict]: neither None nor {}
NotEmpty(optional) == "value" \in DOMAIN optional /\ DOMAIN optional.value # {}

\* CookieManager.save_cookies: the entry of the e-mail is replaced; cookie
\* values are strings, so the search of lines 83-87 finds no 'expires'
save_cookies(file, email, cookies, expiration, t) ==
    Dump(SetItem(LoadAll(file), email,
                 [cookies |-> cookies, saved_at |-> t, expires_at |-> expiration]))

\* CookieManager.load_cookies: an entry without 'cookies' is itself returned
load_cookies(file, email) ==
    IF ~file.exists \/ email \notin DOMAIN file.data THEN None
    ELSE LET user_data == file.data[email]
         IN  IF DOMAIN user_data = {} THEN None
             ELSE IF "cookies" \in DOMAIN user_data THEN Some(user_data.cookies)
             ELSE Some(user_data)

\* lines 139-151 and 628-641: the entry of the e-mail, created empty if there
\* is none, with the fields set
UpdateEntry(file, email, fields) ==
    LET all_data == LoadAll(file)
        user_entry == IF email \in DOMAIN all_data THEN all_data[email] ELSE <<>>
    IN  Dump(SetItem(all_data, email,
                     [k \in DOMAIN user_entry \cup DOMAIN fields |->
                         IF k \in DOMAIN fields THEN fields[k] ELSE user_entry[k]]))

\* CookieManager.save_user_data
save_user_data(file, email, user_data, t) ==
    UpdateEntry(file, email, [user_data |-> user_data, user_data_saved_at |-> t])

\* ServerManager._save_client_auth: "if guid:" keeps a missing guid out
save_client_auth(file, user_email, client_auth, guid) ==
    UpdateEntry(file, user_email,
                IF guid = None THEN [client_auth |-> client_auth]
                ELSE [client_auth |-> client_auth, guid |-> guid.value])

\* CookieManager.delete_cookies
delete_cookies(file, email) ==
    IF file.exists /\ email \in DOMAIN file.data
    THEN Dump(DelItem(file.data, email)) ELSE file

\* CookieManager.is_cookie_expired at time t
is_cookie_expired(file, email, t) ==
    IF ~file.exists \/ email \notin DOMAIN file.data THEN TRUE
    ELSE LET user_data == file.data[email]
         IN  IF DOMAIN user_data = {} THEN TRUE
             ELSE IF "expires_at" \in DOMAIN user_data
                       /\ user_data.expires_at # None
                  THEN t > user_data.expires_at.value
                  ELSE FALSE

\* CookieManager.get_cached_users: the keys of the file
get_cached_users(file) == IF file.exists THEN DOMAIN file.data ELSE {}

\* ServerManager.get_or_create_anonymous_user: the file after the call
get_or_create_anonymous_user(file, t) ==
    IF NotEmpty(load_cookies(file, "anonymous_user")) THEN file
    ELSE save_cookies(file, "anonymous_user", <<>>, None, t)

VARIABLES
    state,              \* the State object handed to run_test
    run,                \* the locals of SpeedTest.run_test
    phase,              \* "download", "upload": the phase that runs, or "none"
    now,                \* time.time(), in ticks
    cancelled_error_is_exception,
                        \* asyncio.CancelledError derives from Exception
                        \* (Python 3.7) or from BaseException (3.8 and later)
    host,               \* server.get('host', '')
    num_connections,
    max_duration,
    test_duration,
    progress_data,      \* the accumulator shared by the workers and the poll loop
    progress_lock,      \* threading.Lock: the threads inside "with progress_lock"
    worker,             \* conn_id -> the locals of one worker thread
    orch,               \* the locals of run_download_test / run_upload_test
    monitor,            \* the concurrent_ping_monitor task
    ping_queue,         \* asyncio.Queue of latencies
    result,             \* the dict returned by the phase
    raised,             \* the exception that left the phase, "" when none
    env,                \* the network: how long its operations may take
    hist,               \* history: what the claims observe and the code does not store
    call,               \* a call of a pure function: its arguments and what it returns
    cookies_file        \* the file at Config.get_cookies_file_path()

vars == <<state, run, phase, now, cancelled_error_is_exception, host, num_connections, max_duration,
          test_duration, progress_data, progress_lock, worker, orch, monitor,
          ping_queue, result, raised, env, hist, call, cookies_file>>

\* what a step of a phase leaves alone; a step that models a whole
\* "with progress_lock" block takes and releases the lock within the step
params == <<state, run, phase, cancelled_error_is_exception, host, num_connections,
            max_duration, test_duration, env, call, progress_lock, cookies_file>>

\* what a statement inside or around a "with progress_lock" block leaves alone
arguments == <<state, run, phase, cancelled_error_is_exception, host, num_connections,
               max_duration, test_duration, env, call, cookies_file>>

\* what a function called on its own leaves alone
Unrelated ==
    <<state, run, phase, now, cancelled_error_is_exception, host, num_connections,
      max_duration, test_duration, progress_data, progress_lock, worker, orch,
      monitor, ping_queue, result, raised, env, hist, cookies_file>>

Conns == 0..(num_connections - 1)

NoResult == [none |-> TRUE]

\* state is None: the phases are called on their own
NoState == [none |-> TRUE]
\* run_test is not running
NoRun == [pc |-> "none"]
\* no function is called on its own
NoCall == [fn |-> "none"]

(***************************************************************************)
(* The dicts the phases return.                                            *)
(***************************************************************************)
NoHostResult ==
    [speed |-> Zero, bytes |-> 0, duration |-> 0, latency |-> EmptyDict,
     error |-> "No host available"]

\* latency_stats of a non-empty list of ping times
LatencyStats(ping_times) ==
    [min |-> SetMin(Range(ping_times)),
     max |-> SetMax(Range(ping_times)),
     avg |-> Frac(SumSeq(ping_times), Len(ping_times)),
     median |-> sorted(ping_times)[(Len(ping_times) \div 2) + 1],
     count |-> Len(ping_times)]

\* overall_speed = (total_bytes * 8) / (total_duration * 1_000_000)
\*                 if total_duration > 0 else 0
OverallSpeed(total_bytes, total_duration) ==
    IF total_duration > 0
    THEN Frac(total_bytes * 8 * TicksPerSecond, total_duration * 1000000)
    ELSE Zero


(***************************************************************************)
(* The background latency monitor, DownloadTest.concurrent_ping_monitor.   *)
(* It is a task of the event loop that also runs the phase: it advances    *)
(* only while the phase is suspended in an await.                          *)
(***************************************************************************)
NoMonitor ==
    [pc |-> "none", ping_times |-> <<>>, ping_count |-> 0, start_time |-> 0,
     duration |-> 0, send_time |-> 0, ready |-> 0, cancel_requested |-> FALSE,
     inbox |-> <<>>]

\* asyncio.create_task(concurrent_ping_monitor(server, duration, ping_queue))
CreateMonitor(duration) == [NoMonitor EXCEPT !.pc = "created", !.duration = duration]

\* the awaits the task can be suspended in
MonitorAwaits == {"connect", "probe", "sleep_ok", "sleep_err"}

\* monitor_task.done()
MonitorDone == monitor.pc \in {"done", "cancelled"}

\* the phase coroutine is suspended in an await: the loop can run the monitor
LoopFree == orch.pc \in {"sleep", "wait_sleep", "retry_sleep"}

\* the task runs for the first time: host = server.get('host')
monitor_start ==
    /\ LoopFree /\ monitor.pc = "created" /\ ~monitor.cancel_requested
    /\ \E d \in env.ws_delays :
         monitor' = IF host = "" THEN [monitor EXCEPT !.pc = "done"]
                    ELSE [monitor EXCEPT !.pc = "connect", !.ready = now + d]
    /\ UNCHANGED <<params, now, progress_data, worker, orch, ping_queue, result,
                   raised, hist>>

MonitorReady(pc) ==
    LoopFree /\ monitor.pc = pc /\ ~monitor.cancel_requested /\ now >= monitor.ready

\* while time.time() - start_time < duration: the next probe is sent, and its
\* reply or its failure comes within the tick or only as the 2 s timeout;
\* once the duration is over the task returns ping_times
LoopTop(m, d) ==
    IF now - m.start_time < m.duration
    THEN [m EXCEPT !.pc = "probe", !.send_time = now,
                   !.ready = IF m.inbox = <<>> THEN now + d ELSE now]
    ELSE [m EXCEPT !.pc = "done"]

\* the probes of one run are capped; past the cap the task stays in its sleep
\* until its duration is over
MonitorCanLoop(m) ==
    m.ping_count < MaxPings \/ now - m.start_time >= m.duration

\* async with websockets.connect(ws_url, ping_interval=None) as websocket
monitor_connect_ok ==
    /\ MonitorReady("connect")
    /\ \E d \in {0, ProbeTimeout} :
         monitor' = LoopTop([monitor EXCEPT !.start_time = now], d)
    /\ UNCHANGED <<params, now, progress_data, worker, orch, ping_queue, result,
                   raised, hist>>

\* except (websockets.exceptions.WebSocketException, OSError): pass
monitor_connect_fail ==
    /\ MonitorReady("connect")
    /\ monitor' = [monitor EXCEPT !.pc = "done"]
    /\ UNCHANGED <<params, now, progress_data, worker, orch, ping_queue, result,
                   raised, hist>>

monitor_pong_unshared ==
    /\ MonitorReady("probe")
    /\ now - monitor.send_time < ProbeTimeout
    /\ \E latency_ms \in env.latencies :
         monitor' = [monitor EXCEPT !.ping_times = Append(@, latency_ms),
                                    !.ping_count = @ + 1,
                                    !.pc = "sleep_ok",
                                    !.ready = now + PingSleep]
    /\ UNCHANGED <<params, now, progress_data, worker, orch, ping_queue, result,
                   raised, hist>>

\* websocket.recv() returned within the timeout: whatever message it returned,
\* the sample is receive_time - send_time and is recorded and put on the queue
\* (lines 1228-1239).  With the reply of a timed-out probe waiting on the
\* connection, recv returns that one at once, and the reply of this probe is
\* the next to wait.
monitor_pong ==
    /\ MonitorReady("probe")
    /\ now - monitor.send_time < ProbeTimeout
    /\ \E latency_ms \in IF monitor.inbox = <<>> THEN env.latencies ELSE {0} :
         /\ monitor' = [monitor EXCEPT
                            !.ping_times = Append(@, latency_ms),
                            !.ping_count = @ + 1,
                            !.pc = "sleep_ok",
                            !.ready = now + PingSleep,
                            !.inbox = IF @ = <<>> THEN @
                                      ELSE Append(Tail(@), monitor.ping_count)]
         /\ ping_queue' = Append(ping_queue, latency_ms)
    /\ hist' = [hist EXCEPT !.reply_lag =
                    Append(@, IF monitor.inbox = <<>> THEN 0
                              ELSE monitor.ping_count - Head(monitor.inbox))]
    /\ UNCHANGED <<params, now, progress_data, worker, orch, result, raised>>

\* except (asyncio.TimeoutError, Exception): the probe is lost; after a
\* timeout its reply may still come, and then waits on the connection
monitor_lost ==
    /\ MonitorReady("probe")
    /\ \E late \in IF now - monitor.send_time >= ProbeTimeout
                    THEN env.late_reply ELSE {FALSE} :
         monitor' = [monitor EXCEPT
                        !.ping_count = @ + 1,
                        !.pc = "sleep_err",
                        !.ready = now + PingSleep,
                        !.inbox = IF late THEN Append(@, monitor.ping_count) ELSE @]
    /\ hist' = [hist EXCEPT !.lost_probes = @ + 1]
    /\ UNCHANGED <<params, now, progress_data, worker, orch, ping_queue, result,
                   raised>>

\* await asyncio.sleep(0.2) is over: back to the top of the loop
monitor_wake ==
    /\ \/ MonitorReady("sleep_ok")
       \/ MonitorReady("sleep_err")
    /\ MonitorCanLoop(monitor)
    /\ \E d \in {0, ProbeTimeout} : monitor' = LoopTop(monitor, d)
    /\ UNCHANGED <<params, now, progress_data, worker, orch, ping_queue, result,
                   raised, hist>>

\* monitor_task.cancel() throws CancelledError into the await the task is
\* suspended in.  Where CancelledError is an Exception, the handler of the
\* probe loop (lines 1244-1247) swallows it and the loop goes on; thrown into
\* the connect or into the handler's own sleep it reaches the outer
\* "except Exception: pass" and the task returns its list.  Where it is a
\* BaseException no handler catches it and the task ends cancelled.
MonitorCancelled(m) ==
    IF cancelled_error_is_exception
    THEN IF m.pc \in {"probe", "sleep_ok"}
         THEN [m EXCEPT !.ping_count = @ + 1, !.pc = "sleep_err",
                        !.ready = now + PingSleep, !.cancel_requested = FALSE]
         ELSE [m EXCEPT !.pc = "done", !.cancel_requested = FALSE]
    ELSE [m EXCEPT !.pc = "cancelled", !.cancel_requested = FALSE]

monitor_cancelled ==
    /\ LoopFree /\ monitor.cancel_requested
    /\ monitor.pc \in {"created"} \cup MonitorAwaits
    /\ monitor' = IF monitor.pc = "created"
                  THEN [monitor EXCEPT !.pc = "cancelled", !.cancel_requested = FALSE]
                  ELSE MonitorCancelled(monitor)
    /\ UNCHANGED <<params, now, progress_data, worker, orch, ping_queue, result,
                   raised, hist>>

MonitorRunnable ==
    /\ LoopFree
    /\ \/ monitor.pc = "created"
       \/ monitor.pc \in MonitorAwaits /\ monitor.cancel_requested
       \/ monitor.pc \in {"connect", "probe"} /\ now >= monitor.ready
       \/ monitor.pc \in {"sleep_ok", "sleep_err"} /\ now >= monitor.ready
            /\ MonitorCanLoop(monitor)

MonitorNext ==
    \/ monitor_start
    \/ monitor_connect_ok
    \/ monitor_connect_fail
    \/ monitor_pong
    \/ monitor_lost
    \/ monitor_wake
    \/ monitor_cancelled


(***************************************************************************)
(* The download phase: download_worker, one thread for each connection.    *)
(***************************************************************************)
IdleDownloadWorker ==
    [pc |-> "idle", bytes_dl |-> 0, local_samples |-> <<>>, start |-> 0,
     last_update |-> 0, last_bytes |-> 0, ready |-> 0]

\* progress_data of run_download_test, lines 1400-1406
DownloadProgress ==
    [bytes |-> 0, speed_samples |-> <<>>, stop |-> FALSE,
     active_connections |-> num_connections,
     connection_status |-> [i \in Conns |-> TRUE]]

\* local_samples[-1:]
LastOf(s) == IF s = <<>> THEN <<>> ELSE <<s[Len(s)]>>

MarkResetsOthers(pd, conn_id) ==
    IF num_connections > 1
    THEN [pd EXCEPT !.connection_status = [i \in Conns |-> i # conn_id],
                    !.stop = TRUE]
    ELSE pd

\* if num_connections > 1: with progress_lock:
\*     connection_status[conn_id] = False; stop = True
MarkUnhealthy(pd, conn_id) ==
    IF num_connections > 1
    THEN [pd EXCEPT !.connection_status[conn_id] = FALSE, !.stop = TRUE]
    ELSE pd

DownloadLoopIgnoresStop(w) == now - w.start < max_duration

DownloadLoopUntilSample(w) ==
    ~progress_data.stop /\ now - w.start < max_duration /\ w.local_samples = <<>>

\* while not progress_data['stop'] and time.time() - start < max_duration
DownloadLoopCondition(w) ==
    ~progress_data.stop /\ now - w.start < max_duration

\* the thread of the pool starts running download_worker(conn_id)
download_worker_begin(i) ==
    /\ phase = "download" /\ worker[i].pc = "begin"
    /\ \E d \in env.connect_delays :
         worker' = [worker EXCEPT ![i] = [@ EXCEPT !.pc = "get", !.start = now,
                                                   !.last_update = now,
                                                   !.ready = now + d]]
    /\ UNCHANGED <<params, now, progress_data, orch, monitor, ping_queue, result,
                   raised, hist>>

\* requests.get returned a response with status 200
download_worker_get_ok(i) ==
    /\ phase = "download" /\ worker[i].pc = "get" /\ now >= worker[i].ready
    /\ worker' = [worker EXCEPT ![i].pc = "loop"]
    /\ UNCHANGED <<params, now, progress_data, orch, monitor, ping_queue, result,
                   raised, hist>>

\* requests.get returned another status (line 1457) or raised (line 1464)
download_worker_get_failed(i) ==
    /\ phase = "download" /\ worker[i].pc = "get" /\ now >= worker[i].ready
    /\ worker' = [worker EXCEPT ![i].pc = "done"]
    /\ progress_data' = MarkUnhealthy(progress_data, i)
    /\ hist' = [hist EXCEPT !.failed = @ \cup {i}, !.connect_failed = @ \cup {i}]
    /\ UNCHANGED <<params, now, orch, monitor, ping_queue, result, raised>>

\* the while condition of line 1421: the next read is issued, or the worker returns
download_worker_loop(i) ==
    /\ phase = "download" /\ worker[i].pc = "loop"
    /\ \E d \in env.read_delays :
         worker' = [worker EXCEPT ![i] =
                       IF DownloadLoopCondition(worker[i])
                       THEN [@ EXCEPT !.pc = "read", !.ready = now + d]
                       ELSE [@ EXCEPT !.pc = "done"]]
    /\ hist' = [hist EXCEPT !.read_after_stop =
                     IF progress_data.stop /\ worker'[i].pc = "read"
                     THEN @ \cup {i} ELSE @]
    /\ UNCHANGED <<params, now, progress_data, orch, monitor, ping_queue, result,
                   raised>>

\* response.raw.read(10240) returned a chunk, lines 1432-1448
download_worker_read_chunk(i) ==
    /\ phase = "download" /\ worker[i].pc = "read" /\ now >= worker[i].ready
    /\ worker[i].bytes_dl < MaxReads * chunk_size
    /\ LET w == worker[i]
           bytes_dl == w.bytes_dl + chunk_size
           current_time == now
           time_delta == current_time - w.last_update
           bytes_delta == bytes_dl - w.last_bytes
           instant_speed ==
               Frac(bytes_delta * 8 * TicksPerSecond, time_delta * 1000000)
           local_samples ==
               IF instant_speed[1] > 0 THEN Append(w.local_samples, instant_speed)
               ELSE w.local_samples
       IN  IF time_delta >= SampleInterval
           THEN /\ worker' = [worker EXCEPT ![i] =
                        [w EXCEPT !.pc = "loop", !.bytes_dl = bytes_dl,
                                  !.local_samples = local_samples,
                                  !.last_update = current_time,
                                  !.last_bytes = bytes_dl]]
                /\ progress_data' =
                        [progress_data EXCEPT
                            !.bytes = @ + bytes_delta,
                            !.speed_samples = @ \o LastOf(local_samples)]
                /\ hist' = [hist EXCEPT
                                !.late_adds[i] = IF progress_data.stop THEN @ + 1 ELSE @,
                                !.sample_times =
                                    IF local_samples # <<>>
                                    THEN Append(@, current_time - orch.start_time)
                                    ELSE @]
           ELSE /\ worker' = [worker EXCEPT ![i] =
                        [w EXCEPT !.pc = "loop", !.bytes_dl = bytes_dl]]
                /\ UNCHANGED <<progress_data, hist>>
    /\ UNCHANGED <<params, now, orch, monitor, ping_queue, result, raised>>

\* the read returned no data (line 1424) or raised (line 1450)
download_worker_read_failed(i) ==
    /\ phase = "download" /\ worker[i].pc = "read" /\ now >= worker[i].ready
    /\ worker' = [worker EXCEPT ![i].pc = "done"]
    /\ progress_data' = MarkUnhealthy(progress_data, i)
    /\ hist' = [hist EXCEPT !.failed = @ \cup {i}]
    /\ UNCHANGED <<params, now, orch, monitor, ping_queue, result, raised>>

\* f.done()
FutureDone(i) == worker[i].pc = "done"

DownloadWorkerRunnable(i) ==
    \/ worker[i].pc \in {"begin", "loop"}
    \/ worker[i].pc \in {"want_mark", "mark_status", "mark_stop", "want_add",
                         "add_bytes", "add_samples", "set_last"}
    \/ worker[i].pc \in {"get", "read"} /\ now >= worker[i].ready

DownloadWorkerNext ==
    \/ \E i \in Conns : download_worker_begin(i)
    \/ \E i \in Conns : download_worker_get_ok(i)
    \/ \E i \in Conns : download_worker_get_failed(i)
    \/ \E i \in Conns : download_worker_loop(i)
    \/ \E i \in Conns : download_worker_read_chunk(i)
    \/ \E i \in Conns : download_worker_read_failed(i)

(***************************************************************************)
(* The download phase: DownloadTest.run_download_test.                     *)
(***************************************************************************)
InitialOrch ==
    [pc |-> "entry", start_time |-> 0, wake |-> 0, total_bytes |-> 0,
     final_bytes |-> 0, all_speed_samples |-> <<>>, total_duration |-> 0,
     ping_times |-> <<>>, latency_stats |-> EmptyDict, retry_count |-> 0,
     wait_start |-> 0, fut |-> 0, speed_mbps |-> Zero]

NoHostUnchecked == FALSE

\* if not host
NoHost == host = ""

\* [s for i, s in enumerate(all_speed_samples) if i >= skip_duration],
\* kept only when it is not empty
FilterSamples(all_speed_samples) ==
    LET filtered_samples ==
            SubSeq(all_speed_samples, skip_duration + 1, Len(all_speed_samples))
    IN  IF filtered_samples # <<>> THEN filtered_samples ELSE all_speed_samples

\* if ping_times and ping_times != [0]: latency_stats = {...}
StatsOf(ping_times) ==
    IF ping_times # <<>> /\ ping_times # <<0>>
    THEN LatencyStats(ping_times)
    ELSE EmptyDict

\* the dict of lines 1606-1613 and 1884-1891
PhaseResult(o) ==
    [speed |-> o.speed_mbps, bytes |-> o.total_bytes,
     duration |-> o.total_duration, latency |-> o.latency_stats,
     samples |-> Len(o.ping_times),
     speed_samples_count |-> Len(o.all_speed_samples)]

\* lines 1364-1407 and 1473-1480
run_download_test_entry ==
    /\ phase = "download" /\ orch.pc = "entry"
    /\ IF NoHost
       THEN /\ result' = NoHostResult
            /\ orch' = [orch EXCEPT !.pc = "returned"]
            /\ UNCHANGED <<monitor, ping_queue, progress_data, worker>>
       ELSE /\ ping_queue' = <<>>
            /\ monitor' = CreateMonitor(max_duration + MonitorMargin)
            /\ progress_data' = DownloadProgress
            /\ worker' = [i \in Conns |-> [IdleDownloadWorker EXCEPT !.pc = "begin"]]
            /\ orch' = [orch EXCEPT !.pc = "poll", !.start_time = now]
            /\ UNCHANGED result
    /\ UNCHANGED <<params, now, raised, hist>>

\* one turn of the polling loop, lines 1482-1508
download_poll ==
    /\ phase = "download" /\ orch.pc = "poll"
    /\ LET all_healthy == \A i \in Conns : progress_data.connection_status[i]
           elapsed == now - orch.start_time
       IN  IF \A i \in Conns : FutureDone(i)
           THEN /\ orch' = [orch EXCEPT !.pc = "final"]
                /\ UNCHANGED progress_data
           ELSE IF (num_connections > 1 /\ ~all_healthy) \/ elapsed >= max_duration
           THEN /\ progress_data' = [progress_data EXCEPT !.stop = TRUE]
                /\ orch' = [orch EXCEPT !.pc = "final"]
           ELSE /\ orch' = [orch EXCEPT !.pc = "sleep", !.wake = now + PollInterval]
                /\ UNCHANGED progress_data
    /\ hist' = [hist EXCEPT !.polled_unhealthy =
                    @ \/ \E i \in Conns : ~progress_data.connection_status[i]]
    /\ UNCHANGED <<params, now, worker, monitor, ping_queue, result, raised>>

\* await asyncio.sleep(0.1) is over
download_poll_wake ==
    /\ phase = "download" /\ orch.pc = "sleep" /\ now >= orch.wake
    /\ orch' = [orch EXCEPT !.pc = "poll"]
    /\ UNCHANGED <<params, now, progress_data, worker, monitor, ping_queue, result,
                   raised, hist>>

\* the final update, lines 1510-1514
download_final_update ==
    /\ phase = "download" /\ orch.pc = "final"
    /\ orch' = [orch EXCEPT !.pc = "collect",
                            !.final_bytes = progress_data.bytes,
                            !.all_speed_samples = progress_data.speed_samples,
                            !.fut = 0, !.wait_start = now]
    /\ progress_data' = [progress_data EXCEPT !.stop = TRUE]
    /\ hist' = [hist EXCEPT !.copied = Len(progress_data.speed_samples)]
    /\ UNCHANGED <<params, now, worker, monitor, ping_queue, result, raised>>

\* future.result(timeout=1) of one future, lines 1520-1525: its bytes are added,
\* or the wait times out and the future is skipped
download_collect ==
    /\ phase = "download" /\ orch.pc = "collect"
    /\ IF orch.fut = num_connections
       THEN orch' = [orch EXCEPT !.pc = "shutdown"]
       ELSE \/ /\ FutureDone(orch.fut)
               /\ orch' = [orch EXCEPT !.total_bytes = @ + worker[orch.fut].bytes_dl,
                                       !.fut = @ + 1, !.wait_start = now]
            \/ /\ ~FutureDone(orch.fut)
               /\ now - orch.wait_start >= FutureTimeout
               /\ orch' = [orch EXCEPT !.fut = @ + 1, !.wait_start = now]
    /\ UNCHANGED <<params, now, progress_data, worker, monitor, ping_queue, result,
                   raised, hist>>

\* while not ping_queue.empty(): ping_times.append(ping_queue.get_nowait())
DrainQueue(o) == [o EXCEPT !.ping_times = @ \o ping_queue]

\* the executor is left (it waits for its threads), lines 1527-1546
download_shutdown ==
    /\ phase = "download" /\ orch.pc = "shutdown"
    /\ \A i \in Conns : FutureDone(i)
    /\ orch' = DrainQueue([orch EXCEPT
                    !.pc = "wait",
                    !.all_speed_samples = FilterSamples(@),
                    !.total_duration = now - orch.start_time - CleanupBuffer,
                    !.wait_start = now])
    /\ ping_queue' = <<>>
    /\ UNCHANGED <<params, now, progress_data, worker, monitor, result, raised, hist>>

\* one turn of the straggler wait, lines 1547-1552 and 1847-1852
drain_wait ==
    /\ orch.pc = "wait"
    /\ IF now - orch.wait_start < StragglerWait
       THEN IF ping_queue # <<>>
            THEN /\ orch' = [orch EXCEPT !.ping_times = Append(@, Head(ping_queue))]
                 /\ ping_queue' = Tail(ping_queue)
            ELSE /\ orch' = [orch EXCEPT !.pc = "wait_sleep", !.wake = now + DrainSleep]
                 /\ UNCHANGED ping_queue
       ELSE /\ orch' = [orch EXCEPT !.pc = "finish"]
            /\ UNCHANGED ping_queue
    /\ UNCHANGED <<params, now, progress_data, worker, monitor, result, raised, hist>>

\* await asyncio.sleep(0.05) is over
drain_wake ==
    /\ orch.pc = "wait_sleep" /\ now >= orch.wake
    /\ orch' = [orch EXCEPT !.pc = "wait"]
    /\ UNCHANGED <<params, now, progress_data, worker, monitor, ping_queue, result,
                   raised, hist>>

\* if not monitor_task.done(): monitor_task.cancel()
CancelMonitor(m) ==
    IF m.pc \in {"done", "cancelled"} THEN m ELSE [m EXCEPT !.cancel_requested = TRUE]

\* lines 1557-1583 and 1606-1613
download_finish ==
    /\ phase = "download" /\ orch.pc = "finish"
    /\ monitor' = CancelMonitor(monitor)
    /\ LET latency_stats == StatsOf(orch.ping_times)
           o == [orch EXCEPT
                    !.speed_mbps = OverallSpeed(orch.total_bytes, orch.total_duration),
                    !.latency_stats = latency_stats]
       IN  IF latency_stats = EmptyDict /\ ~MonitorDone
           THEN /\ orch' = [o EXCEPT !.pc = "retry", !.retry_count = 0]
                /\ UNCHANGED result
           ELSE /\ orch' = [o EXCEPT !.pc = "returned"]
                /\ result' = PhaseResult(o)
    /\ UNCHANGED <<params, now, progress_data, worker, ping_queue, raised, hist>>

\* while not latency_stats and retry_count < 5 and not monitor_task.done()
download_retry ==
    /\ phase = "download" /\ orch.pc = "retry"
    /\ IF orch.latency_stats = EmptyDict /\ orch.retry_count < MaxRetries
          /\ ~MonitorDone
       THEN /\ orch' = [orch EXCEPT !.pc = "retry_sleep", !.wake = now + RetrySleep]
            /\ UNCHANGED result
       ELSE /\ orch' = [orch EXCEPT !.pc = "returned"]
            /\ result' = PhaseResult(orch)
    /\ UNCHANGED <<params, now, progress_data, worker, monitor, ping_queue, raised,
                   hist>>

\* "except Exception" catches the CancelledError of monitor_task.result()
CatchesCancelledError == cancelled_error_is_exception

\* after await asyncio.sleep(0.1), lines 1588-1601
download_retry_wake ==
    /\ phase = "download" /\ orch.pc = "retry_sleep" /\ now >= orch.wake
    /\ IF monitor.pc = "cancelled"
       THEN \* monitor_task.result() raises CancelledError
            IF CatchesCancelledError
            THEN /\ orch' = [orch EXCEPT !.pc = "returned"]
                 /\ result' = PhaseResult(orch)
                 /\ UNCHANGED raised
            ELSE /\ orch' = [orch EXCEPT !.pc = "raised"]
                 /\ raised' = "CancelledError"
                 /\ UNCHANGED result
       ELSE IF monitor.pc = "done"
       THEN LET o == [orch EXCEPT
                        !.ping_times = monitor.ping_times,
                        !.latency_stats =
                            IF monitor.ping_times # <<>>
                            THEN LatencyStats(monitor.ping_times) ELSE @]
            IN  /\ orch' = [o EXCEPT !.pc = "returned"]
                /\ result' = PhaseResult(o)
                /\ UNCHANGED raised
       ELSE /\ orch' = [orch EXCEPT !.pc = "retry", !.retry_count = @ + 1]
            /\ UNCHANGED <<result, raised>>
    /\ UNCHANGED <<params, now, progress_data, worker, monitor, ping_queue, hist>>

DownloadOrchRunnable ==
    /\ phase = "download"
    /\ \/ orch.pc \in {"entry", "poll", "final", "wait", "finish", "retry"}
       \/ orch.pc \in {"want_snapshot", "snapshot", "want_stop", "set_stop",
                        "want_final", "locked_final"}
       \/ orch.pc \in {"sleep", "wait_sleep", "retry_sleep"} /\ now >= orch.wake
       \/ orch.pc = "shutdown" /\ \A i \in Conns : FutureDone(i)
       \/ orch.pc = "collect"
            /\ (orch.fut = num_connections \/ FutureDone(orch.fut)
                \/ now - orch.wait_start >= FutureTimeout)

DownloadOrchNext ==
    \/ run_download_test_entry
    \/ download_poll
    \/ download_poll_wake
    \/ download_final_update
    \/ download_collect
    \/ download_shutdown
    \/ download_finish

\* the wait for the monitor's result, lines 1583-1601
DownloadRetryNext ==
    \/ download_retry
    \/ download_retry_wake

(***************************************************************************)
(* The upload phase: upload_worker and ProgressTracker.read.               *)
(***************************************************************************)
IdleUploadWorker ==
    [pc |-> "idle", bytes_sent |-> 0, last_update |-> 0, last_bytes |-> 0,
     base_time |-> 0, current_time |-> 0, ready |-> 0]

\* progress_data of run_upload_test, lines 1685-1694
UploadProgress ==
    [bytes |-> 0, speed_samples |-> <<>>, stop |-> FALSE, start_time |-> now,
     measurement_start |-> measurement_start, measurement_end |-> measurement_end,
     active_connections |-> num_connections,
     connection_status |-> [i \in Conns |-> TRUE]]

\* tracker = ProgressTracker(...); session.post(upload_url, data=tracker, timeout=5)
upload_worker_begin(i) ==
    /\ phase = "upload" /\ worker[i].pc = "begin"
    /\ \E d \in env.connect_delays :
         worker' = [worker EXCEPT ![i] =
                       [@ EXCEPT !.pc = "connect", !.last_update = now,
                                 !.base_time = progress_data.start_time,
                                 !.ready = now + d]]
    /\ UNCHANGED <<params, now, progress_data, orch, monitor, ping_queue, result,
                   raised, hist>>

\* the request is on its way: the body is read from the tracker, block by block
upload_worker_connected(i) ==
    /\ phase = "upload" /\ worker[i].pc = "connect" /\ now >= worker[i].ready
    /\ worker' = [worker EXCEPT ![i].pc = "sending"]
    /\ UNCHANGED <<params, now, progress_data, orch, monitor, ping_queue, result,
                   raised, hist>>

\* session.post raised before any block was sent: "except Exception: pass"
upload_worker_connect_failed(i) ==
    /\ phase = "upload" /\ worker[i].pc = "connect" /\ now >= worker[i].ready
    /\ worker' = [worker EXCEPT ![i].pc = "done"]
    /\ hist' = [hist EXCEPT !.failed = @ \cup {i}, !.connect_failed = @ \cup {i}]
    /\ UNCHANGED <<params, now, progress_data, orch, monitor, ping_queue, result,
                   raised>>

\* a write of the body failed: session.post raised, "except Exception: pass"
upload_worker_write_failed(i) ==
    /\ phase = "upload" /\ worker[i].pc = "sending" /\ now = worker[i].ready
    /\ worker[i].bytes_sent > 0
    /\ worker' = [worker EXCEPT ![i].pc = "done"]
    /\ hist' = [hist EXCEPT !.failed = @ \cup {i}]
    /\ UNCHANGED <<params, now, progress_data, orch, monitor, ping_queue, result,
                   raised>>

\* the elapsed time is inside the measurement window
InWindow(elapsed) ==
    elapsed >= progress_data.measurement_start
        /\ elapsed < progress_data.measurement_end

\* ProgressTracker.read, lines 1716-1729: no data at the end of the window or
\* once the stop flag is set, else one more chunk of random data
tracker_read(i) ==
    /\ phase = "upload" /\ worker[i].pc = "sending" /\ now >= worker[i].ready
    /\ LET w == worker[i]
           current_time == now
           elapsed == current_time - w.base_time
       IN  IF elapsed >= progress_data.measurement_end \/ progress_data.stop
           THEN /\ \E d \in {0, PostTimeout} :
                     worker' = [worker EXCEPT ![i] =
                                   [w EXCEPT !.pc = "response", !.ready = now + d]]
                /\ UNCHANGED hist
           ELSE /\ w.bytes_sent < MaxChunks * chunk_size
                /\ worker' = [worker EXCEPT ![i] =
                                 [w EXCEPT !.pc = "update",
                                           !.bytes_sent = @ + chunk_size,
                                           !.current_time = current_time]]
                /\ hist' = [hist EXCEPT !.pending_outside[i] =
                                IF InWindow(elapsed) THEN @ ELSE @ + chunk_size]
    /\ UNCHANGED <<params, now, progress_data, orch, monitor, ping_queue, result,
                   raised>>

\* ProgressTracker.read, lines 1731-1748: every 0.1 s the bytes sent since the
\* last update are added to the shared count, when the read is in the window
tracker_update(i) ==
    /\ phase = "upload" /\ worker[i].pc = "update"
    /\ LET w == worker[i]
           elapsed == w.current_time - w.base_time
           time_delta == w.current_time - w.last_update
           bytes_delta == w.bytes_sent - w.last_bytes
           instant_speed ==
               Frac(bytes_delta * 8 * TicksPerSecond, time_delta * 1000000)
       IN  /\ \E d \in env.read_delays :
                worker' = [worker EXCEPT ![i] =
                    IF time_delta >= SampleInterval
                    THEN [w EXCEPT !.pc = "sending", !.ready = now + d,
                                   !.last_update = w.current_time,
                                   !.last_bytes = w.bytes_sent]
                    ELSE [w EXCEPT !.pc = "sending", !.ready = now + d]]
           /\ IF time_delta >= SampleInterval /\ InWindow(elapsed)
              THEN progress_data' =
                      [progress_data EXCEPT
                          !.bytes = @ + bytes_delta,
                          !.speed_samples =
                              IF instant_speed[1] > 0 THEN Append(@, instant_speed)
                              ELSE @]
              ELSE UNCHANGED progress_data
           /\ hist' =
                IF time_delta >= SampleInterval
                THEN [hist EXCEPT
                        !.pending_outside[i] = 0,
                        !.counted_outside =
                            IF InWindow(elapsed) THEN @ + hist.pending_outside[i]
                            ELSE @,
                        !.late_adds[i] =
                            IF InWindow(elapsed) /\ progress_data.stop THEN @ + 1
                            ELSE @]
                ELSE hist
    /\ UNCHANGED <<params, now, orch, monitor, ping_queue, result, raised>>

\* the response came, or the 5 s timeout of the request ended the wait
upload_worker_response(i) ==
    /\ phase = "upload" /\ worker[i].pc = "response" /\ now >= worker[i].ready
    /\ worker' = [worker EXCEPT ![i].pc = "done"]
    /\ UNCHANGED <<params, now, progress_data, orch, monitor, ping_queue, result,
                   raised, hist>>

UploadWorkerRunnable(i) ==
    \/ worker[i].pc \in {"begin", "update"}
    \/ worker[i].pc \in {"connect", "response"} /\ now >= worker[i].ready
    \/ /\ worker[i].pc = "sending" /\ now >= worker[i].ready
       /\ \/ worker[i].bytes_sent < MaxChunks * chunk_size
          \/ now - worker[i].base_time >= progress_data.measurement_end
          \/ progress_data.stop

UploadWorkerNext ==
    \/ \E i \in Conns : upload_worker_begin(i)
    \/ \E i \in Conns : upload_worker_connected(i)
    \/ \E i \in Conns : upload_worker_connect_failed(i)
    \/ \E i \in Conns : upload_worker_write_failed(i)
    \/ \E i \in Conns : tracker_read(i)
    \/ \E i \in Conns : tracker_update(i)
    \/ \E i \in Conns : upload_worker_response(i)

(***************************************************************************)
(* The upload phase: DownloadTest.run_upload_test.                         *)
(***************************************************************************)
\* lines 1646-1695 and 1785-1791
run_upload_test_entry ==
    /\ phase = "upload" /\ orch.pc = "entry"
    /\ IF NoHost
       THEN /\ result' = NoHostResult
            /\ orch' = [orch EXCEPT !.pc = "returned"]
            /\ UNCHANGED <<monitor, ping_queue, progress_data, worker>>
       ELSE /\ ping_queue' = <<>>
            /\ monitor' = CreateMonitor(test_duration + MonitorMargin)
            /\ progress_data' = UploadProgress
            /\ worker' = [i \in Conns |-> [IdleUploadWorker EXCEPT !.pc = "begin"]]
            /\ orch' = [orch EXCEPT !.pc = "poll", !.start_time = now]
            /\ UNCHANGED result
    /\ UNCHANGED <<params, now, raised, hist>>

\* one turn of the monitoring loop, lines 1794-1811
upload_poll ==
    /\ phase = "upload" /\ orch.pc = "poll"
    /\ LET elapsed == now - orch.start_time
       IN  IF ~(now - orch.start_time < test_duration + MonitorMargin)
           THEN /\ orch' = [orch EXCEPT !.pc = "final"]
                /\ UNCHANGED progress_data
           ELSE IF elapsed >= measurement_end
           THEN /\ progress_data' = [progress_data EXCEPT !.stop = TRUE]
                /\ orch' = [orch EXCEPT !.pc = "final"]
           ELSE /\ orch' = [orch EXCEPT !.pc = "sleep", !.wake = now + PollInterval]
                /\ UNCHANGED progress_data
    /\ UNCHANGED <<params, now, worker, monitor, ping_queue, result, raised, hist>>

\* await asyncio.sleep(0.1) is over
upload_poll_wake ==
    /\ phase = "upload" /\ orch.pc = "sleep" /\ now >= orch.wake
    /\ orch' = [orch EXCEPT !.pc = "poll"]
    /\ UNCHANGED <<params, now, progress_data, worker, monitor, ping_queue, result,
                   raised, hist>>

\* the workers are told to stop, lines 1813-1815
upload_signal_stop ==
    /\ phase = "upload" /\ orch.pc = "final"
    /\ orch' = [orch EXCEPT !.pc = "final_read"]
    /\ progress_data' = [progress_data EXCEPT !.stop = TRUE]
    /\ hist' = [hist EXCEPT !.stop_elapsed = now - progress_data.start_time]
    /\ UNCHANGED <<params, now, worker, monitor, ping_queue, result, raised>>

\* the final count is read under the lock, lines 1817-1825
upload_final_update ==
    /\ phase = "upload" /\ orch.pc = "final_read"
    /\ orch' = [orch EXCEPT !.pc = "shutdown",
                            !.final_bytes = progress_data.bytes,
                            !.all_speed_samples = progress_data.speed_samples,
                            !.total_bytes = progress_data.bytes]
    /\ UNCHANGED <<params, now, progress_data, worker, monitor, ping_queue, result,
                   raised, hist>>

\* the executor is left (it waits for its threads), lines 1827-1846
upload_shutdown ==
    /\ phase = "upload" /\ orch.pc = "shutdown"
    /\ \A i \in Conns : FutureDone(i)
    /\ orch' = DrainQueue([orch EXCEPT !.pc = "wait",
                                       !.total_duration = measurement_window,
                                       !.wait_start = now])
    /\ ping_queue' = <<>>
    /\ UNCHANGED <<params, now, progress_data, worker, monitor, result, raised, hist>>

\* lines 1857-1874 and 1884-1891
upload_finish ==
    /\ phase = "upload" /\ orch.pc = "finish"
    /\ monitor' = CancelMonitor(monitor)
    /\ LET o == [orch EXCEPT
                    !.speed_mbps = OverallSpeed(orch.total_bytes, orch.total_duration),
                    !.latency_stats = StatsOf(orch.ping_times)]
       IN  /\ orch' = [o EXCEPT !.pc = "returned"]
           /\ result' = PhaseResult(o)
    /\ UNCHANGED <<params, now, progress_data, worker, ping_queue, raised, hist>>

UploadOrchRunnable ==
    /\ phase = "upload"
    /\ \/ orch.pc \in {"entry", "poll", "final", "final_read", "wait", "finish"}
       \/ orch.pc \in {"sleep", "wait_sleep"} /\ now >= orch.wake
       \/ orch.pc = "shutdown" /\ \A i \in Conns : FutureDone(i)

UploadOrchNext ==
    \/ run_upload_test_entry
    \/ upload_poll
    \/ upload_poll_wake
    \/ upload_signal_stop
    \/ upload_final_update
    \/ upload_shutdown
    \/ upload_finish

(***************************************************************************)
(* Time.  The clock advances only when no thread and no task can run (a    *)
(* step that does not wait for the network or for a sleep takes no time),  *)
(* and then to the next instant at which something can happen: a network   *)
(* operation ends, a timeout or a deadline is reached, a sleep ends.  A    *)
(* turn of a polling loop that would find nothing new and sleep again is   *)
(* not such an instant: the turns between two events are skipped.          *)
(***************************************************************************)
PhaseOver == orch.pc \in {"returned", "raised"}

Urgent ==
    \/ DownloadOrchRunnable
    \/ UploadOrchRunnable
    \/ phase = "download" /\ \E i \in Conns : DownloadWorkerRunnable(i)
    \/ phase = "upload" /\ \E i \in Conns : UploadWorkerRunnable(i)
    \/ MonitorRunnable

\* the poll of lines 1482-1505 would leave the loop
DownloadPollActs ==
    \/ \A i \in Conns : FutureDone(i)
    \/ num_connections > 1 /\ \E i \in Conns : ~progress_data.connection_status[i]

\* the instants at which the phase coroutine has something to do
OrchTimes ==
    IF orch.pc = "sleep" /\ phase = "download"
    THEN {orch.start_time + max_duration}
            \cup (IF DownloadPollActs THEN {orch.wake} ELSE {})
    ELSE IF orch.pc = "sleep" /\ phase = "upload"
    THEN {orch.start_time + measurement_end,
          orch.start_time + test_duration + MonitorMargin}
    ELSE IF orch.pc = "wait_sleep"
    THEN {orch.wait_start + StragglerWait}
            \cup (IF ping_queue # <<>> THEN {orch.wake} ELSE {})
    ELSE IF orch.pc = "retry_sleep" THEN {orch.wake}
    ELSE IF orch.pc = "collect" THEN {orch.wait_start + FutureTimeout}
    ELSE {}

WorkerTimes ==
    {worker[i].ready : i \in {j \in Conns : worker[j].pc \notin {"idle", "done"}}}
        \cup (IF phase = "upload"
              THEN {worker[i].base_time + progress_data.measurement_end :
                        i \in {j \in Conns : worker[j].pc = "sending"}}
              ELSE {})

MonitorTimes ==
    IF monitor.pc \in {"connect", "probe"} THEN {monitor.ready}
    ELSE IF monitor.pc \in {"sleep_ok", "sleep_err"}
    THEN {monitor.ready, monitor.start_time + monitor.duration}
    ELSE {}

EventTimes == {t \in OrchTimes \cup WorkerTimes \cup MonitorTimes : t > now}

Tick ==
    /\ ~PhaseOver /\ ~Urgent
    /\ EventTimes # {}
    /\ now' = SetMin(EventTimes)
    /\ UNCHANGED <<params, progress_data, worker, orch, monitor, ping_queue, result,
                   raised, hist>>

NewHist(n) ==
    [failed |-> {}, connect_failed |-> {}, read_after_stop |-> {},
     late_adds |-> [i \in 0..(n - 1) |-> 0], polled_unhealthy |-> FALSE,
     pending_outside |-> [i \in 0..(n - 1) |-> 0], counted_outside |-> 0,
     stop_elapsed |-> 0, sample_times |-> <<>>, copied |-> 0, lost_probes |-> 0,
     reply_lag |-> <<>>]

InitialHist == NewHist(num_connections)

\* the network of the throughput phases: a connection is made within the tick
\* or after a stall, a block of data moves within the tick, in one tick or
\* after a stall; the latency endpoint refuses the connection
ThroughputEnv(ph) ==
    [connect_delays |-> {0, LongDelay},
     read_delays |-> IF ph = "download" THEN Delays ELSE {0, UploadStall},
     ws_delays |-> {0}, latencies |-> Latencies, late_reply |-> {FALSE}]

InitPhase(ph) ==
    /\ state = NoState
    /\ run = NoRun
    /\ phase = ph
    /\ now = 0
    /\ host \in Hosts
    /\ num_connections \in 1..MaxConnections
    /\ max_duration \in IF ph = "download" THEN Durations ELSE {0}
    /\ test_duration \in IF ph = "upload" THEN TestDurations ELSE {0}
    /\ progress_data = IF ph = "download" THEN DownloadProgress ELSE UploadProgress
    /\ worker = [i \in Conns |->
                    IF ph = "download" THEN IdleDownloadWorker ELSE IdleUploadWorker]
    /\ orch = InitialOrch
    /\ monitor = NoMonitor
    /\ ping_queue = <<>>
    /\ result = NoResult
    /\ raised = ""
    /\ hist = InitialHist
    /\ progress_lock = {}
    /\ cookies_file = NoFile
    /\ call = NoCall

Init ==
    /\ \E ph \in {"download", "upload"} : InitPhase(ph)
    /\ env = ThroughputEnv(phase)
    /\ cancelled_error_is_exception = FALSE

\* the latency endpoint is down: the monitor task ends at its connect
MonitorDown ==
    \/ monitor_start
    \/ monitor_connect_fail

Next ==
    \/ DownloadOrchNext
    \/ DownloadWorkerNext
    \/ UploadOrchNext
    \/ UploadWorkerNext
    \/ drain_wait
    \/ drain_wake
    \/ MonitorDown
    \/ Tick

Spec == Init /\ [][Next]_vars


(***************************************************************************)
(* The phases with the latency endpoint up: one connection that streams    *)
(* steadily, next to a monitor whose connect and probes succeed, fail or   *)
(* time out, under either class of asyncio.CancelledError.                 *)
(***************************************************************************)
MonitorEnv ==
    [connect_delays |-> {0}, read_delays |-> {1}, ws_delays |-> {0, LongDelay},
     latencies |-> Latencies, late_reply |-> BOOLEAN]

InitMonitor ==
    /\ \E ph \in {"download", "upload"} : InitPhase(ph)
    /\ host = "host"
    /\ num_connections = 1
    /\ test_duration \in {0, SetMin(TestDurations)}
    /\ env = MonitorEnv
    /\ cancelled_error_is_exception \in BOOLEAN

NextMonitor ==
    \/ DownloadOrchNext
    \/ DownloadRetryNext
    \/ DownloadWorkerNext
    \/ UploadOrchNext
    \/ UploadWorkerNext
    \/ drain_wait
    \/ drain_wake
    \/ MonitorNext
    \/ Tick

SpecMonitor == InitMonitor /\ [][NextMonitor]_vars


(***************************************************************************)
(* SpeedTest.run_test: the server is chosen, the ping phase runs, then the *)
(* download and the upload phase, each in an event loop of its own, and    *)
(* the report is built.                                                    *)
(***************************************************************************)
\* None, or an empty dict: "if not server", "if not config"
NoServer == <<>>
NoConfig == <<>>

\* d.get(key, default)
Get(d, key, default) == IF key \in DOMAIN d THEN d[key] ELSE default

\* a server entry without a host and one with a host
Servers == {[name |-> "s"], [name |-> "s", host |-> "host"]}

\* what fetch_server_config returns: nothing, a config without a server
\* list, an empty list, a list of servers
Configs ==
    {NoConfig, [status |-> "ok"], [servers |-> <<>>]}
        \cup {[servers |-> <<sv>>] : sv \in Servers}

Modes == {"single", "multiple"}

\* the largest r with r * r <= x, for x in lo*lo .. hi*hi - 1
RECURSIVE ISqrtIn(_, _, _)
ISqrtIn(x, lo, hi) ==
    IF hi - lo <= 1 THEN lo
    ELSE LET mid == (lo + hi) \div 2
         IN  IF mid * mid <= x THEN ISqrtIn(x, mid, hi) ELSE ISqrtIn(x, lo, mid)

ISqrt(x) == ISqrtIn(x, 0, SqrtLimit)

RECURSIVE SumSquares(_)
SumSquares(s) == IF s = <<>> THEN 0 ELSE Head(s) * Head(s) + SumSquares(Tail(s))

\* PingTest.calculate_ping_stats; stddev, the square root of the mean squared
\* deviation, is in hundredths of a millisecond, truncated
calculate_ping_stats(ping_times) ==
    IF ping_times = <<>> THEN EmptyDict
    ELSE LET n == Len(ping_times)
             ping_times_sorted == sorted(ping_times)
         IN  [min |-> SetMin(Range(ping_times)),
              max |-> SetMax(Range(ping_times)),
              avg |-> Frac(SumSeq(ping_times), n),
              median |-> ping_times_sorted[(n \div 2) + 1],
              stddev |-> ISqrt((n * SumSquares(ping_times)
                                 - SumSeq(ping_times) * SumSeq(ping_times))
                                * 10000) \div n,
              count |-> n]


\* "if ping_times": neither None nor an empty list
Truthy(optional) == "value" \in DOMAIN optional /\ optional.value # <<>>

\* asyncio.run(PingTest.run_ping_test(server, num_pings=10)): the call, with
\* the locals of the coroutine; rtts and lost are history, the round-trip
\* times of the answered probes and the number of probes without an answer
PingCall(server) ==
    [fn |-> "run_ping_test", server |-> server, num_pings |-> num_pings,
     pc |-> "connect", i |-> 0, ping_times |-> <<>>, rtts |-> <<>>, lost |-> 0,
     returned |-> FALSE, result |-> None]

\* return None, or return ping_times
PingReturns(c, value) == [c EXCEPT !.pc = "done", !.returned = TRUE, !.result = value]

\* lines 1918-1931 and 1981-1983: without a host, and when the connection
\* fails, the function returns None
ping_connect ==
    /\ call.fn = "run_ping_test" /\ call.pc = "connect"
    /\ IF Get(call.server, "host", "") = ""
       THEN call' = PingReturns(call, None)
       ELSE \E connects \in BOOLEAN :
              call' = IF connects THEN [call EXCEPT !.pc = "probe"]
                      ELSE PingReturns(call, None)
    /\ UNCHANGED Unrelated

\* one turn of "for i in range(num_pings)", lines 1935-1969: the reply came
\* and its round-trip time is kept
ping_pong ==
    /\ call.fn = "run_ping_test" /\ call.pc = "probe" /\ call.i < call.num_pings
    /\ Len(call.ping_times) < MaxReplies
    /\ \E latency_ms \in env.latencies :
         call' = [call EXCEPT !.ping_times = Append(@, latency_ms),
                              !.rtts = Append(@, latency_ms),
                              !.i = @ + 1]
    /\ UNCHANGED Unrelated

ping_lost_returns ==
    /\ call.fn = "run_ping_test" /\ call.pc = "probe" /\ call.i < call.num_pings
    /\ call' = PingReturns([call EXCEPT !.i = @ + 1, !.lost = @ + 1], None)
    /\ UNCHANGED Unrelated

\* lines 1971-1976: the send or the reply timed out or failed
ping_lost ==
    /\ call.fn = "run_ping_test" /\ call.pc = "probe" /\ call.i < call.num_pings
    /\ call' = [call EXCEPT !.i = @ + 1, !.lost = @ + 1]
    /\ UNCHANGED Unrelated

\* lines 1985-1989: after the loop
ping_return ==
    /\ call.fn = "run_ping_test" /\ call.pc = "probe" /\ call.i = call.num_pings
    /\ call' = PingReturns(call, IF call.ping_times = <<>> THEN None
                                 ELSE Some(call.ping_times))
    /\ UNCHANGED Unrelated

PingNext ==
    \/ ping_connect
    \/ ping_pong
    \/ ping_lost
    \/ ping_return

demo_ping_times == [i \in 1..10 |-> 0]

ZeroStats == [speed |-> Zero, bytes |-> 0, duration |-> 0, samples |-> 0]

InitialRun ==
    [pc |-> "start", order |-> <<>>, server |-> NoServer, ping_times |-> None,
     ping_stats |-> EmptyDict,
     download_result |-> None, download_stats |-> EmptyDict,
     download_latency |-> EmptyDict,
     upload_result |-> None, upload_stats |-> EmptyDict,
     upload_latency |-> EmptyDict,
     report |-> NoResult]

\* the reports of lines 2104-2110 and 2126-2132
FetchFailedReport(e) ==
    [ping |-> Zero, download |-> Zero, upload |-> Zero, server |-> "N/A",
     error |-> e]

\* lines 2085-2132: the selected server, or one picked from the fetched list
run_test_select_server ==
    /\ run.pc = "start"
    /\ LET server == IF state # NoState THEN state.selected_server ELSE NoServer
       IN  IF server = NoServer /\ state # NoState
           THEN \E config \in Configs :
                  IF config = NoConfig
                  THEN /\ run' = [run EXCEPT
                                    !.pc = "returned",
                                    !.report = FetchFailedReport("Server fetch failed")]
                       /\ UNCHANGED state
                  ELSE IF "servers" \in DOMAIN config
                  THEN IF config.servers # <<>>
                       THEN \E picked \in Range(config.servers) :
                              /\ state' = [state EXCEPT !.selected_server = picked]
                              /\ run' = [run EXCEPT !.pc = "ping", !.server = picked]
                       ELSE /\ run' = [run EXCEPT
                                        !.pc = "returned",
                                        !.report =
                                            FetchFailedReport("No servers available")]
                            /\ UNCHANGED state
                  ELSE /\ run' = [run EXCEPT !.pc = "ping", !.server = server]
                       /\ UNCHANGED state
           ELSE /\ run' = [run EXCEPT !.pc = "ping", !.server = server]
                /\ UNCHANGED state
    /\ cookies_file' =
           IF state # NoState /\ state.selected_server = NoServer
                  /\ state.current_user = ""
           THEN get_or_create_anonymous_user(cookies_file, now)
           ELSE cookies_file
    /\ UNCHANGED <<phase, now, cancelled_error_is_exception, progress_lock, call, host, num_connections,
                   max_duration, test_duration, progress_data, worker, orch, monitor,
                   ping_queue, result, raised, env, hist>>

\* lines 2160-2164 and 2184-2187: the ping phase is started, or there is no
\* server and the substitute data are used
run_test_ping ==
    /\ run.pc = "ping"
    /\ IF run.server # NoServer
       THEN /\ run' = [run EXCEPT !.pc = "pinging", !.order = Append(@, "ping")]
            /\ call' = PingCall(run.server)
       ELSE /\ run' = [run EXCEPT !.pc = "download",
                                  !.ping_stats = calculate_ping_stats(demo_ping_times)]
            /\ UNCHANGED call
    /\ UNCHANGED <<state, phase, now, cancelled_error_is_exception, progress_lock, cookies_file, host,
                   num_connections, max_duration, test_duration, progress_data, worker,
                   orch, monitor, ping_queue, result, raised, env, hist>>

\* lines 2164-2178: the ping phase is over
run_test_ping_done ==
    /\ run.pc = "pinging" /\ call.fn = "run_ping_test" /\ call.returned
    /\ LET ping_times == call.result
       IN  run' = [run EXCEPT
                     !.pc = "download",
                     !.ping_times = ping_times,
                     !.ping_stats =
                         IF Truthy(ping_times)
                         THEN calculate_ping_stats(ping_times.value)
                         ELSE calculate_ping_stats(demo_ping_times)]
    /\ UNCHANGED <<state, phase, now, cancelled_error_is_exception, progress_lock, cookies_file, call, host,
                   num_connections, max_duration, test_duration, progress_data, worker,
                   orch, monitor, ping_queue, result, raised, env, hist>>

\* state.parallel_connections if state and state.speedtest_mode == "multiple" else 1
ConnectionsOf(st) ==
    IF st # NoState /\ st.speedtest_mode = "multiple"
    THEN st.parallel_connections ELSE 1

\* asyncio.run(...) of a phase: a new event loop, the locals of the phase at
\* their initial values
StartPhase(ph, n) ==
    /\ phase' = ph
    /\ host' = Get(run.server, "host", "")
    /\ num_connections' = n
    /\ progress_data' = IF ph = "download" THEN DownloadProgress ELSE UploadProgress
    /\ worker' = [i \in 0..(n - 1) |->
                     IF ph = "download" THEN IdleDownloadWorker ELSE IdleUploadWorker]
    /\ orch' = InitialOrch
    /\ monitor' = NoMonitor
    /\ ping_queue' = <<>>
    /\ result' = NoResult
    /\ raised' = ""
    /\ hist' = NewHist(n)

\* the stats kept of a phase result, lines 2212-2227 and 2268-2283
StatsKept(phase_result) ==
    IF "error" \notin DOMAIN phase_result
    THEN [speed |-> phase_result.speed, bytes |-> phase_result.bytes,
          duration |-> phase_result.duration,
          samples |-> Get(phase_result, "samples", 0)]
    ELSE ZeroStats

LatencyKept(phase_result) ==
    IF "error" \notin DOMAIN phase_result
    THEN Get(phase_result, "latency", EmptyDict)
    ELSE EmptyDict

\* lines 2195-2210 and 2237-2244
run_test_download ==
    /\ run.pc = "download"
    /\ IF run.server # NoServer
       THEN /\ StartPhase("download", ConnectionsOf(state))
            /\ max_duration' = RunMaxDuration
            /\ run' = [run EXCEPT !.pc = "downloading",
                                  !.order = Append(@, "download")]
       ELSE /\ run' = [run EXCEPT !.pc = "upload", !.download_stats = ZeroStats]
            /\ UNCHANGED <<phase, host, num_connections, max_duration, progress_data,
                           worker, orch, monitor, ping_queue, result, raised, hist>>
    /\ UNCHANGED <<state, now, cancelled_error_is_exception, progress_lock, cookies_file, call, test_duration, env>>

\* the phase is over, lines 2212-2236: its result is kept, or the exception
\* that "except Exception" does not catch leaves run_test
run_test_download_done ==
    /\ run.pc = "downloading" /\ phase = "download"
    /\ orch.pc \in {"returned", "raised"}
    /\ run' = IF orch.pc = "raised" THEN [run EXCEPT !.pc = "raised"]
              ELSE [run EXCEPT !.pc = "upload",
                               !.download_result = result,
                               !.download_stats = StatsKept(result),
                               !.download_latency = LatencyKept(result)]
    /\ phase' = "none"
    /\ UNCHANGED <<state, now, cancelled_error_is_exception, progress_lock, cookies_file, call, host, num_connections,
                   max_duration, test_duration, progress_data, worker, orch, monitor,
                   ping_queue, result, raised, env, hist>>

\* lines 2252-2266 and 2293-2300
run_test_upload ==
    /\ run.pc = "upload"
    /\ IF run.server # NoServer
       THEN /\ StartPhase("upload", ConnectionsOf(state))
            /\ test_duration' = FullTest
            /\ run' = [run EXCEPT !.pc = "uploading", !.order = Append(@, "upload")]
       ELSE /\ run' = [run EXCEPT !.pc = "report", !.upload_stats = ZeroStats]
            /\ UNCHANGED <<phase, host, num_connections, test_duration, progress_data,
                           worker, orch, monitor, ping_queue, result, raised, hist>>
    /\ UNCHANGED <<state, now, cancelled_error_is_exception, progress_lock, cookies_file, call, max_duration, env>>

\* lines 2268-2292
run_test_upload_done ==
    /\ run.pc = "uploading" /\ phase = "upload"
    /\ orch.pc \in {"returned", "raised"}
    /\ run' = IF orch.pc = "raised" THEN [run EXCEPT !.pc = "raised"]
              ELSE [run EXCEPT !.pc = "report",
                               !.upload_result = result,
                               !.upload_stats = StatsKept(result),
                               !.upload_latency = LatencyKept(result)]
    /\ phase' = "none"
    /\ UNCHANGED <<state, now, cancelled_error_is_exception, progress_lock, cookies_file, call, host, num_connections,
                   max_duration, test_duration, progress_data, worker, orch, monitor,
                   ping_queue, result, raised, env, hist>>

\* the report of lines 2309-2324
Report(r) ==
    [ping |-> Get(r.ping_stats, "avg", Zero),
     download |-> Get(r.download_stats, "speed", Zero),
     upload |-> Get(r.upload_stats, "speed", Zero),
     server |-> IF r.server # NoServer THEN Get(r.server, "name", "Unknown")
                ELSE "N/A",
     download_latency |-> r.download_latency,
     upload_latency |-> r.upload_latency,
     download_speeds |-> [combined |-> Get(r.download_stats, "speed", Zero),
                          average |-> Get(r.download_stats, "speed", Zero)],
     upload_speeds |-> [combined |-> Get(r.upload_stats, "speed", Zero),
                        average |-> Get(r.upload_stats, "speed", Zero)]]

run_test_report ==
    /\ run.pc = "report"
    /\ run' = [run EXCEPT !.pc = "returned", !.report = Report(run)]
    /\ UNCHANGED <<state, phase, now, cancelled_error_is_exception, progress_lock, cookies_file, call, host,
                   num_connections, max_duration, test_duration, progress_data, worker,
                   orch, monitor, ping_queue, result, raised, env, hist>>

\* the network of a whole run: every connection is made at once and streams
\* steadily or fails; the latency endpoint of the throughput phases is down
RunTestEnv ==
    [connect_delays |-> {0}, read_delays |-> {1}, ws_delays |-> {0},
     latencies |-> Latencies, late_reply |-> {FALSE}]

States ==
    {[is_logged_in |-> FALSE, current_user |-> "", selected_server |-> sv,
      speedtest_mode |-> mode, parallel_connections |-> MaxConnections] :
        sv \in {NoServer} \cup Servers, mode \in Modes}

\* before run_test is called: the State objects it may be given, the network
\* and the classes asyncio.CancelledError may have
InitRun(states, network, classes) ==
    /\ state \in states
    /\ run = InitialRun
    /\ phase = "none"
    /\ now = 0
    /\ cancelled_error_is_exception \in classes
    /\ host = ""
    /\ num_connections = 1
    /\ max_duration = 0
    /\ test_duration = 0
    /\ progress_data = DownloadProgress
    /\ worker = [i \in Conns |-> IdleDownloadWorker]
    /\ orch = [InitialOrch EXCEPT !.pc = "returned"]
    /\ monitor = NoMonitor
    /\ ping_queue = <<>>
    /\ result = NoResult
    /\ raised = ""
    /\ env = network
    /\ hist = InitialHist
    /\ progress_lock = {}
    /\ cookies_file = NoFile
    /\ call = NoCall

InitRunTest == InitRun({NoState} \cup States, RunTestEnv, {FALSE})

RunTestNext ==
    \/ run_test_select_server
    \/ run_test_ping
    \/ run_test_ping_done
    \/ run_test_download
    \/ run_test_download_done
    \/ run_test_upload
    \/ run_test_upload_done
    \/ run_test_report

NextRunTest ==
    \/ RunTestNext
    \/ PingNext
    \/ DownloadOrchNext
    \/ DownloadWorkerNext
    \/ UploadOrchNext
    \/ UploadWorkerNext
    \/ drain_wait
    \/ drain_wake
    \/ MonitorDown
    \/ Tick

SpecRunTest == InitRunTest /\ [][NextRunTest]_vars


(***************************************************************************)
(* A run with the latency endpoint up: one server with a host, a single    *)
(* connection that streams steadily, and a monitor whose connect and       *)
(* probes succeed, fail or time out, under either class of CancelledError. *)
(***************************************************************************)
\* the network of such a run: every answered probe takes the same time
RunMonitorEnv ==
    [MonitorEnv EXCEPT !.latencies = {SetMax(Latencies)}, !.late_reply = {FALSE}]

InitRunMonitor ==
    InitRun({st \in States : /\ Get(st.selected_server, "host", "") # ""
                             /\ st.speedtest_mode = "single"},
            RunMonitorEnv, BOOLEAN)

NextRunMonitor ==
    \/ RunTestNext
    \/ PingNext
    \/ DownloadOrchNext
    \/ DownloadRetryNext
    \/ DownloadWorkerNext
    \/ UploadOrchNext
    \/ UploadWorkerNext
    \/ drain_wait
    \/ drain_wake
    \/ MonitorNext
    \/ Tick

SpecRunMonitor == InitRunMonitor /\ [][NextRunMonitor]_vars


(***************************************************************************)
(* The pure functions, called on their own: DownloadTest.is_speed_stable,  *)
(* PingTest.calculate_ping_stats and the latency statistics the two        *)
(* throughput phases compute from the drained samples.  The floats of the  *)
(* code are exact here: the samples are whole numbers, a threshold is a    *)
(* fraction <<numerator, denominator>>.                                    *)
(***************************************************************************)
\* all sequences over S of length at most n
SeqsUpTo(S, n) == UNION {[1..k -> S] : k \in 0..n}

\* speed samples in Mbps, latencies in ms
SpeedValues == {0, 10, 12, 20}
PingValues == Latencies \cup {50}

\* the thresholds a caller passes: 0.05, 0.10, and the default 3.0
Thresholds == {<<1, 20>>, <<1, 10>>, <<3, 1>>}

\* speed_samples[-min_samples:]
LastN(s, n) == SubSeq(s, IF Len(s) > n THEN Len(s) - n + 1 ELSE 1, Len(s))

\* sum((x - mean) ** 2 for x in recent_samples), times n * n: mean = total / n
RECURSIVE SumSqDev(_, _, _)
SumSqDev(s, total, n) ==
    IF s = <<>> THEN 0
    ELSE (n * Head(s) - total) * (n * Head(s) - total)
            + SumSqDev(Tail(s), total, n)

\* cv < limit for a positive mean, where cv = std_dev / mean_speed and
\* std_dev = (sum((x - mean) ** 2) / n) ** 0.5: both sides squared
CVBelow(recent_samples, limit) ==
    LET n == Len(recent_samples)
        total == SumSeq(recent_samples)
    IN  limit[2] * limit[2] * SumSqDev(recent_samples, total, n)
            < limit[1] * limit[1] * n * total * total

\* return cv < 0.10
cv_limit == <<1, 10>>

is_speed_stable_unguarded(speed_samples, threshold, min_samples) ==
    LET recent_samples == LastN(speed_samples, min_samples)
    IN  IF SumSeq(recent_samples) = 0 THEN FALSE
        ELSE CVBelow(recent_samples, cv_limit)

\* DownloadTest.is_speed_stable, lines 1321-1339
is_speed_stable(speed_samples, threshold, min_samples) ==
    IF Len(speed_samples) < min_samples THEN FALSE
    ELSE LET recent_samples == LastN(speed_samples, min_samples)
         IN  IF SumSeq(recent_samples) = 0 THEN FALSE
             ELSE CVBelow(recent_samples, cv_limit)

\* the calls made: the function, its arguments, and no result yet
Calls ==
    {[fn |-> "is_speed_stable", speed_samples |-> s, threshold |-> t,
      min_samples |-> m, returned |-> FALSE, result |-> FALSE] :
        s \in SeqsUpTo(SpeedValues, MaxSamples), t \in Thresholds,
        m \in 1..MaxSamples}
    \cup {[fn |-> f, ping_times |-> s, returned |-> FALSE, result |-> EmptyDict] :
            f \in {"calculate_ping_stats", "latency_stats"},
            s \in SeqsUpTo(PingValues, MaxSamples)}

Calling(fn) == call.fn = fn /\ ~call.returned

call_is_speed_stable ==
    /\ Calling("is_speed_stable")
    /\ call' = [call EXCEPT
                  !.returned = TRUE,
                  !.result = is_speed_stable(call.speed_samples, call.threshold,
                                             call.min_samples)]
    /\ UNCHANGED Unrelated

call_calculate_ping_stats ==
    /\ Calling("calculate_ping_stats")
    /\ call' = [call EXCEPT !.returned = TRUE,
                            !.result = calculate_ping_stats(call.ping_times)]
    /\ UNCHANGED Unrelated

\* lines 1566-1574 of the download and 1866-1874 of the upload
call_latency_stats ==
    /\ Calling("latency_stats")
    /\ call' = [call EXCEPT !.returned = TRUE, !.result = StatsOf(call.ping_times)]
    /\ UNCHANGED Unrelated

InitFunctions ==
    /\ call \in Calls
    /\ state = NoState
    /\ run = NoRun
    /\ phase = "none"
    /\ now = 0
    /\ cancelled_error_is_exception = FALSE
    /\ host = ""
    /\ num_connections = 1
    /\ max_duration = 0
    /\ test_duration = 0
    /\ progress_data = DownloadProgress
    /\ worker = [i \in Conns |-> IdleDownloadWorker]
    /\ orch = [InitialOrch EXCEPT !.pc = "returned"]
    /\ monitor = NoMonitor
    /\ ping_queue = <<>>
    /\ result = NoResult
    /\ raised = ""
    /\ env = RunTestEnv
    /\ hist = InitialHist
    /\ progress_lock = {}
    /\ cookies_file = NoFile

NextFunctions ==
    \/ call_is_speed_stable
    \/ call_calculate_ping_stats
    \/ call_latency_stats

SpecFunctions == InitFunctions /\ [][NextFunctions]_vars


(***************************************************************************)
(* The download phase, statement by statement around progress_lock: each   *)
(* "with progress_lock" block is entered in one step and its statements    *)
(* are steps of their own, so that the threads interleave inside and       *)
(* around the blocks.                                                      *)
(***************************************************************************)
\* the thread of the event loop, and the pool thread of one connection
MainThread == <<"main", 0>>

WorkerThread(conn_id) == <<"worker", conn_id>>

worker_lock_skipped(i) ==
    /\ phase = "download" /\ worker[i].pc \in {"want_mark", "want_add"}
    /\ worker' = [worker EXCEPT ![i].pc =
                     IF @ = "want_mark" THEN "mark_status" ELSE "add_bytes"]
    /\ UNCHANGED <<arguments, progress_lock, now, progress_data, orch, monitor,
                   ping_queue, result, raised, hist>>

main_lock_skipped ==
    /\ phase = "download"
    /\ orch.pc \in {"want_snapshot", "want_stop", "want_final"}
    /\ orch' = [orch EXCEPT !.pc =
                   IF @ = "want_snapshot" THEN "snapshot"
                   ELSE IF @ = "want_stop" THEN "set_stop" ELSE "locked_final"]
    /\ UNCHANGED <<arguments, progress_lock, now, progress_data, worker, monitor,
                   ping_queue, result, raised, hist>>

\* "with progress_lock:" in download_worker, lines 1427, 1443, 1453, 1460, 1467:
\* the thread goes on once it has the lock
worker_lock_acquire(i) ==
    /\ phase = "download" /\ worker[i].pc \in {"want_mark", "want_add"}
    /\ progress_lock = {}
    /\ cookies_file = NoFile
    /\ progress_lock' = {WorkerThread(i)}
    /\ worker' = [worker EXCEPT ![i].pc =
                     IF @ = "want_mark" THEN "mark_status" ELSE "add_bytes"]
    /\ UNCHANGED <<arguments, now, progress_data, orch, monitor, ping_queue,
                   result, raised, hist>>

\* the read returned no data (line 1424) or raised (line 1450), or requests.get
\* returned another status (line 1457) or raised (line 1464)
worker_failure(i) ==
    /\ phase = "download" /\ worker[i].pc \in {"get", "read"}
    /\ now >= worker[i].ready
    /\ worker' = [worker EXCEPT ![i].pc =
                     IF num_connections > 1 THEN "want_mark" ELSE "done"]
    /\ hist' = [hist EXCEPT !.failed = @ \cup {i},
                            !.connect_failed =
                                IF worker[i].pc = "get" THEN @ \cup {i} ELSE @]
    /\ UNCHANGED <<arguments, progress_lock, now, progress_data, orch, monitor,
                   ping_queue, result, raised>>

\* progress_data['connection_status'][conn_id] = False
mark_status(i) ==
    /\ phase = "download" /\ worker[i].pc = "mark_status"
    /\ progress_data' = [progress_data EXCEPT !.connection_status[i] = FALSE]
    /\ worker' = [worker EXCEPT ![i].pc = "mark_stop"]
    /\ UNCHANGED <<arguments, progress_lock, now, orch, monitor, ping_queue,
                   result, raised, hist>>

\* progress_data['stop'] = True, and the block is left
mark_stop(i) ==
    /\ phase = "download" /\ worker[i].pc = "mark_stop"
    /\ progress_data' = [progress_data EXCEPT !.stop = TRUE]
    /\ progress_lock' = progress_lock \ {WorkerThread(i)}
    /\ worker' = [worker EXCEPT ![i].pc = "done"]
    /\ UNCHANGED <<arguments, now, orch, monitor, ping_queue, result, raised,
                   hist>>

\* response.raw.read(10240) returned a chunk, lines 1432-1441
read_chunk(i) ==
    /\ phase = "download" /\ worker[i].pc = "read" /\ now >= worker[i].ready
    /\ worker[i].bytes_dl < MaxReads * chunk_size
    /\ LET w == worker[i]
           bytes_dl == w.bytes_dl + chunk_size
           time_delta == now - w.last_update
           bytes_delta == bytes_dl - w.last_bytes
           instant_speed ==
               Frac(bytes_delta * 8 * TicksPerSecond, time_delta * 1000000)
       IN  worker' = [worker EXCEPT ![i] =
                IF time_delta >= SampleInterval
                THEN [w EXCEPT !.pc = "want_add", !.bytes_dl = bytes_dl,
                               !.local_samples =
                                   IF instant_speed[1] > 0
                                   THEN Append(@, instant_speed) ELSE @]
                ELSE [w EXCEPT !.pc = "loop", !.bytes_dl = bytes_dl]]
    /\ UNCHANGED <<arguments, progress_lock, now, progress_data, orch, monitor,
                   ping_queue, result, raised, hist>>

add_bytes_total(i) ==
    /\ phase = "download" /\ worker[i].pc = "add_bytes"
    /\ progress_data' = [progress_data EXCEPT !.bytes = @ + worker[i].bytes_dl]
    /\ worker' = [worker EXCEPT ![i].pc = "add_samples"]
    /\ hist' = [hist EXCEPT !.late_adds[i] =
                    IF progress_data.stop THEN @ + 1 ELSE @]
    /\ UNCHANGED <<arguments, progress_lock, now, orch, monitor, ping_queue,
                   result, raised>>

\* progress_data['bytes'] += bytes_delta
add_bytes(i) ==
    /\ phase = "download" /\ worker[i].pc = "add_bytes"
    /\ progress_data' = [progress_data EXCEPT
                            !.bytes = @ + worker[i].bytes_dl - worker[i].last_bytes]
    /\ worker' = [worker EXCEPT ![i].pc = "add_samples"]
    /\ hist' = [hist EXCEPT !.late_adds[i] =
                    IF progress_data.stop THEN @ + 1 ELSE @]
    /\ UNCHANGED <<arguments, progress_lock, now, orch, monitor, ping_queue,
                   result, raised>>

\* progress_data['speed_samples'].extend(local_samples[-1:]), and the block is left
add_samples(i) ==
    /\ phase = "download" /\ worker[i].pc = "add_samples"
    /\ progress_data' = [progress_data EXCEPT
                            !.speed_samples = @ \o LastOf(worker[i].local_samples)]
    /\ progress_lock' = progress_lock \ {WorkerThread(i)}
    /\ worker' = [worker EXCEPT ![i].pc = "set_last"]
    /\ UNCHANGED <<arguments, now, orch, monitor, ping_queue, result, raised,
                   hist>>

\* last_update = current_time; last_bytes = bytes_dl, lines 1447-1448
set_last(i) ==
    /\ phase = "download" /\ worker[i].pc = "set_last"
    /\ worker' = [worker EXCEPT ![i] =
                     [@ EXCEPT !.pc = "loop", !.last_update = now,
                               !.last_bytes = worker[i].bytes_dl]]
    /\ UNCHANGED <<arguments, progress_lock, now, progress_data, orch, monitor,
                   ping_queue, result, raised, hist>>

\* while any(not f.done() for f in futures), line 1482
poll_condition ==
    /\ phase = "download" /\ orch.pc = "poll"
    /\ orch' = [orch EXCEPT !.pc = IF \A i \in Conns : FutureDone(i)
                                   THEN "want_final" ELSE "want_snapshot"]
    /\ UNCHANGED <<arguments, progress_lock, now, progress_data, worker, monitor,
                   ping_queue, result, raised, hist>>

\* "with progress_lock:" in run_download_test, lines 1483, 1497, 1503, 1511
main_lock_acquire ==
    /\ phase = "download"
    /\ orch.pc \in {"want_snapshot", "want_stop", "want_final"}
    /\ progress_lock = {}
    /\ cookies_file = NoFile
    /\ progress_lock' = {MainThread}
    /\ orch' = [orch EXCEPT !.pc =
                   IF @ = "want_snapshot" THEN "snapshot"
                   ELSE IF @ = "want_stop" THEN "set_stop" ELSE "locked_final"]
    /\ UNCHANGED <<arguments, now, progress_data, worker, monitor, ping_queue,
                   result, raised, hist>>

\* the snapshot of lines 1484-1486 and, the block left, the checks of lines
\* 1488-1508 on what was read
poll_snapshot ==
    /\ phase = "download" /\ orch.pc = "snapshot"
    /\ LET current_bytes == progress_data.bytes
           all_healthy == \A i \in Conns : progress_data.connection_status[i]
           elapsed == now - orch.start_time
       IN  /\ orch' =
                IF (num_connections > 1 /\ ~all_healthy) \/ elapsed >= max_duration
                THEN [orch EXCEPT !.pc = "want_stop", !.final_bytes = current_bytes]
                ELSE [orch EXCEPT !.pc = "sleep", !.wake = now + PollInterval,
                                  !.final_bytes = current_bytes]
           /\ hist' = [hist EXCEPT !.polled_unhealthy = @ \/ ~all_healthy]
    /\ progress_lock' = progress_lock \ {MainThread}
    /\ UNCHANGED <<arguments, now, progress_data, worker, monitor, ping_queue,
                   result, raised>>

\* progress_data['stop'] = True; break, lines 1498-1499 and 1504-1505
poll_set_stop ==
    /\ phase = "download" /\ orch.pc = "set_stop"
    /\ progress_data' = [progress_data EXCEPT !.stop = TRUE]
    /\ progress_lock' = progress_lock \ {MainThread}
    /\ orch' = [orch EXCEPT !.pc = "want_final"]
    /\ UNCHANGED <<arguments, now, worker, monitor, ping_queue, result, raised,
                   hist>>

\* the final update, lines 1512-1514, and the block is left
final_update ==
    /\ phase = "download" /\ orch.pc = "locked_final"
    /\ orch' = [orch EXCEPT !.pc = "collect",
                            !.final_bytes = progress_data.bytes,
                            !.all_speed_samples = progress_data.speed_samples,
                            !.fut = 0, !.wait_start = now]
    /\ progress_data' = [progress_data EXCEPT !.stop = TRUE]
    /\ progress_lock' = progress_lock \ {MainThread}
    /\ hist' = [hist EXCEPT !.copied = Len(progress_data.speed_samples)]
    /\ UNCHANGED <<arguments, now, worker, monitor, ping_queue, result, raised>>

\* a download of up to MaxConnections connections with the latency endpoint down
InitLock ==
    /\ InitPhase("download")
    /\ host = "host"
    /\ env = ThroughputEnv("download")
    /\ cancelled_error_is_exception = FALSE

NextLock ==
    \/ run_download_test_entry
    \/ poll_condition
    \/ main_lock_acquire
    \/ poll_snapshot
    \/ poll_set_stop
    \/ download_poll_wake
    \/ final_update
    \/ download_collect
    \/ download_shutdown
    \/ download_finish
    \/ drain_wait
    \/ drain_wake
    \/ MonitorDown
    \/ \E i \in Conns : download_worker_begin(i)
    \/ \E i \in Conns : download_worker_get_ok(i)
    \/ \E i \in Conns : download_worker_loop(i)
    \/ \E i \in Conns : worker_failure(i)
    \/ \E i \in Conns : worker_lock_acquire(i)
    \/ \E i \in Conns : mark_status(i)
    \/ \E i \in Conns : mark_stop(i)
    \/ \E i \in Conns : read_chunk(i)
    \/ \E i \in Conns : add_bytes(i)
    \/ \E i \in Conns : add_samples(i)
    \/ \E i \in Conns : set_last(i)
    \/ Tick

SpecLock == InitLock /\ [][NextLock]_vars


(***************************************************************************)
(* The cookie store on its own: save_cookies, save_user_data,              *)
(* _save_client_auth, delete_cookies and load_cookies called in any order. *)
(* hist.saved maps an e-mail to the cookies of its latest save_cookies     *)
(* that no delete_cookies followed.                                        *)
(***************************************************************************)
Emails == {"a@x", "anonymous_user"}

\* cookie dicts: {} and two sets of session cookies
CookieDicts == {<<>>, [sid |-> "s1"], [sid |-> "s2"]}

\* window.OOKLA.globals of a logged-in user; clientAuth of a config
UserData == [userName |-> "u"]
ClientAuth == [token |-> "t"]

\* no expiration, or one at the first tick after the start of the clock
Expirations == {None, Some(1)}

\* the variables of a measurement, which the calls below leave alone
Measurement ==
    <<run, phase, cancelled_error_is_exception, host, num_connections, max_duration,
      test_duration, progress_data, progress_lock, worker, orch, monitor,
      ping_queue, result, raised, env>>

\* no measurement has been started
NoMeasurement ==
    /\ run = NoRun
    /\ phase = "none"
    /\ cancelled_error_is_exception = FALSE
    /\ host = ""
    /\ num_connections = 1
    /\ max_duration = 0
    /\ test_duration = 0
    /\ progress_data = DownloadProgress
    /\ progress_lock = {}
    /\ worker = [i \in Conns |-> IdleDownloadWorker]
    /\ orch = [InitialOrch EXCEPT !.pc = "returned"]
    /\ monitor = NoMonitor
    /\ ping_queue = <<>>
    /\ result = NoResult
    /\ raised = ""
    /\ env = RunTestEnv

Returned(fn, email, value) ==
    [fn |-> fn, email |-> email, returned |-> TRUE, result |-> value]

call_save_cookies ==
    \E email \in Emails, cookies \in CookieDicts, expiration \in Expirations :
        /\ cookies_file' = save_cookies(cookies_file, email, cookies, expiration, now)
        /\ hist' = [hist EXCEPT !.saved = SetItem(@, email, cookies)]
        /\ call' = Returned("save_cookies", email, None)
        /\ UNCHANGED <<Measurement, state, now>>

call_save_user_data ==
    \E email \in Emails :
        /\ cookies_file' = save_user_data(cookies_file, email, UserData, now)
        /\ call' = Returned("save_user_data", email, None)
        /\ UNCHANGED <<Measurement, state, now, hist>>

call_save_client_auth ==
    \E user_email \in Emails, guid \in {None, Some("g")} :
        /\ cookies_file' = save_client_auth(cookies_file, user_email, ClientAuth, guid)
        /\ call' = Returned("save_client_auth", user_email, None)
        /\ UNCHANGED <<Measurement, state, now, hist>>

call_delete_cookies ==
    \E email \in Emails :
        /\ cookies_file' = delete_cookies(cookies_file, email)
        /\ hist' = [hist EXCEPT !.saved = DelItem(@, email)]
        /\ call' = Returned("delete_cookies", email, None)
        /\ UNCHANGED <<Measurement, state, now>>

call_load_cookies ==
    \E email \in Emails :
        /\ call' = Returned("load_cookies", email, load_cookies(cookies_file, email))
        /\ UNCHANGED <<Measurement, state, now, hist, cookies_file>>

InitCookies ==
    /\ NoMeasurement
    /\ state = NoState
    /\ now = 0
    /\ call = NoCall
    /\ hist = [saved |-> <<>>]
    /\ cookies_file = NoFile

NextCookies ==
    \/ call_save_cookies
    \/ call_save_user_data
    \/ call_save_client_auth
    \/ call_delete_cookies
    \/ call_load_cookies

SpecCookies == InitCookies /\ [][NextCookies]_vars


(***************************************************************************)
(* The application: Application.run shows the menu, reads a choice and     *)
(* MenuHandler runs the action of the chosen item.  The position of the    *)
(* application is call.pc.  A text is the sequence of its pieces: the      *)
(* words the menu handler looks for and the text between them, so that     *)
(* "needle in text" is the search for a run of pieces.  An input is the    *)
(* line typed, "^C" standing for Ctrl+C at the prompt.  Of run_test the    *)
(* application slice keeps the selection of the server and the number of   *)
(* connections; the measurement is the subject of SpecRunTest.             *)
(***************************************************************************)
\* State.__init__
DefaultConnections == 8
MaxParallel == 64

\* the clock of the application runs up to this tick
MaxClock == 1

NewState ==
    [is_logged_in |-> FALSE, current_user |-> "", selected_server |-> NoServer,
     speedtest_mode |-> "multiple", parallel_connections |-> DefaultConnections]

\* the e-mails typed at the login prompt, the empty line included
AppEmails == {"", "a@x"}

\* the servers of a fetched list
AppServers ==
    <<[name |-> "s", host |-> "host", sponsor |-> <<"ISP">>],
      [name |-> "s", host |-> "host", sponsor |-> <<"Login", "net">>]>>

\* int(s) of a stripped line: Some(n), or None for ValueError
Numerals ==
    ("0" :> 0) @@ ("1" :> 1) @@ ("2" :> 2) @@ ("3" :> 3) @@ ("4" :> 4)
        @@ ("5" :> 5) @@ ("6" :> 6) @@ ("8" :> 8) @@ ("64" :> 64) @@ ("65" :> 65)

IntOf(s) == IF s \in DOMAIN Numerals THEN Some(Numerals[s]) ELSE None

\* needle in text
In(needle, text) ==
    \E i \in 1..(Len(text) - Len(needle) + 1) :
        SubSeq(text, i, i + Len(needle) - 1) = needle

\* ServerManager.get_server_display_name, the colour codes left out
get_server_display_name(server) ==
    Get(server, "sponsor", <<"Unknown">>)
        \o <<" - ", Get(server, "name", "Unknown"), ", ",
             Get(server, "country", "Unknown"), " (0km)">>

\* State.get_server_display
get_server_display(st) ==
    IF st.selected_server = NoServer THEN <<"Auto Pick">>
    ELSE get_server_display_name(st.selected_server)

\* Display.print_menu: the list of (number, text) it returns
print_menu(st) ==
    LET texts ==
            (IF ~st.is_logged_in THEN <<<<"Login">>>> ELSE <<>>)
                \o << <<"Select Server", " (">> \o get_server_display(st) \o <<")">>,
                      <<"Run SpeedTest">>,
                      <<"Run SpeedTest", " and Share">>,
                      <<"Settings">> >>
                \o (IF st.is_logged_in
                    THEN << <<"Logout", " (", st.current_user, ")">> >>
                    ELSE <<>>)
    IN  [n \in 1..Len(texts) |-> <<n, texts[n]>>]

\* lines 843-871: the items in the order of their numbers
ItemKinds(st) ==
    (IF ~st.is_logged_in THEN <<"login">> ELSE <<>>)
        \o <<"select_server", "run_test", "run_test_and_share", "settings">>
        \o (IF st.is_logged_in THEN <<"logout">> ELSE <<>>)

\* MenuHandler._execute_menu_action: the branch taken for a menu text
ActionOf(action) ==
    IF In(<<"Login">>, action) THEN "login"
    ELSE IF In(<<"Select Server">>, action) THEN "select_server"
    ELSE IF In(<<"Run SpeedTest", " and Share">>, action) THEN "run_test_and_share"
    ELSE IF In(<<"Run SpeedTest">>, action) THEN "run_test"
    ELSE IF In(<<"Settings">>, action) THEN "settings"
    ELSE IF In(<<"Logout">>, action) THEN "logout"
    ELSE "menu"

\* the application at a position, with what the last action returned
AppCall(pc) ==
    [fn |-> "app", pc |-> pc, last |-> "none", login_result |-> None,
     menu_items |-> <<>>]

At(pc) == call.fn = "app" /\ call.pc = pc

\* what the claims observe: the item shown under the chosen number and what
\* the action went through
Begin(shown) ==
    [shown |-> shown, outcome |-> "", password_asked |-> FALSE, selected |-> None,
     status |-> 0, verified |-> FALSE, confirm |-> "", connections |-> 0]

MenuInputs == {"0", "1", "2", "3", "4", "5", "6", "x", "^C"}

\* Application.run, line 2587: the menu of the current state is printed; what
\* the last action returned is gone
show_menu ==
    /\ At("menu")
    /\ call' = [AppCall("choice") EXCEPT !.menu_items = print_menu(state)]
    /\ hist' = Begin("none")
    /\ UNCHANGED <<state, now, cookies_file, Measurement>>

\* lines 2588-2589 and MenuHandler.handle_menu_choice: a choice is read and the
\* action of the item found is entered
handle_menu_choice ==
    /\ At("choice")
    /\ \E choice \in MenuInputs :
         LET menu_items == call.menu_items
             choice_num == IntOf(choice)
             found == IF choice_num = None THEN {}
                      ELSE {k \in 1..Len(menu_items) :
                               menu_items[k][1] = choice_num.value}
         IN  IF choice = "^C" \/ choice_num = Some(0)
             THEN /\ call' = [call EXCEPT !.pc = "exited", !.last = "exit"]
                  /\ UNCHANGED <<hist, run>>
             ELSE IF found = {}
             THEN /\ call' = [call EXCEPT !.pc = "menu", !.last = "invalid"]
                  /\ UNCHANGED <<hist, run>>
             ELSE LET k == CHOOSE k \in found : TRUE
                      action == ActionOf(menu_items[k][2])
                  IN  /\ call' = [call EXCEPT !.pc = action, !.last = "choice"]
                      /\ hist' = Begin(ItemKinds(state)[k])
                      /\ run' = IF action \in {"run_test", "run_test_and_share"}
                                THEN InitialRun ELSE run
    /\ UNCHANGED <<state, now, cookies_file, phase, cancelled_error_is_exception,
                   host, num_connections, max_duration, test_duration,
                   progress_data, progress_lock, worker, orch, monitor, ping_queue,
                   result, raised, env>>

\* what an action of the menu leaves alone
Screen == <<run, phase, cancelled_error_is_exception, host, num_connections,
            max_duration, test_duration, progress_data, progress_lock, worker,
            orch, monitor, ping_queue, result, raised, env, now>>

\* State.login, State.logout, State.set_server
StateLogin(st, username) == [st EXCEPT !.is_logged_in = TRUE, !.current_user = username]
StateLogout(st) == [st EXCEPT !.is_logged_in = FALSE, !.current_user = ""]
set_server(st, server_dict) ==
    [st EXCEPT !.selected_server =
                   IF server_dict = None THEN NoServer ELSE server_dict.value]

\* SettingsManager.show_settings: one turn of its loop
show_settings ==
    /\ At("settings")
    /\ \E choice \in {"0", "1", "2", "x", "^C"} :
         call' = IF choice \in {"0", "^C"}
                 THEN [call EXCEPT !.pc = "menu", !.last = "settings"]
                 ELSE IF choice = "1" THEN [call EXCEPT !.pc = "mode"]
                 ELSE IF choice = "2" THEN [call EXCEPT !.pc = "parallel"]
                 ELSE call
    /\ UNCHANGED <<Screen, state, cookies_file, hist>>

\* SettingsManager.select_speedtest_mode
select_speedtest_mode ==
    /\ At("mode")
    /\ \E choice \in {"1", "2", "x", "^C"} :
         /\ state' = IF choice = "1" THEN [state EXCEPT !.speedtest_mode = "multiple"]
                     ELSE IF choice = "2"
                     THEN [state EXCEPT !.speedtest_mode = "single"]
                     ELSE state
         /\ call' = IF choice = "^C"
                    THEN [call EXCEPT !.pc = "menu", !.last = "settings"]
                    ELSE [call EXCEPT !.pc = "settings"]
    /\ UNCHANGED <<Screen, cookies_file, hist>>

\* the range test of line 2474 without its upper end
InRangeUnbounded(connections) == 1 <= connections

\* line 2474
InRange(connections) == 1 <= connections /\ connections <= MaxParallel

ParallelInputs == {"", "x", "0", "1", "64", "65", "^C"}

\* SettingsManager.set_parallel_connections: one turn of its loop
set_parallel_connections ==
    /\ At("parallel")
    /\ \E user_input \in ParallelInputs :
         LET connections == IntOf(IF user_input = "" THEN "8" ELSE user_input)
         IN  IF user_input = "^C"
             THEN /\ call' = [call EXCEPT !.pc = "menu", !.last = "settings"]
                  /\ UNCHANGED state
             ELSE IF connections # None /\ InRange(connections.value)
             THEN /\ state' = [state EXCEPT !.parallel_connections = connections.value]
                  /\ call' = [call EXCEPT !.pc = "settings"]
             ELSE UNCHANGED <<state, call>>
    /\ UNCHANGED <<Screen, cookies_file, hist>>

\* the rest of run_test, as far as the application slice follows it: with a
\* server the phases run with the connections of lines 2201 and 2258, which
\* hist.connections records
menu_run_test_done ==
    /\ call.fn = "app" /\ call.pc \in {"run_test", "run_test_and_share"}
    /\ run.pc \in {"ping", "returned"}
    /\ LET measured == run.pc = "ping" /\ run.server # NoServer
       IN  hist' = [hist EXCEPT
                      !.outcome = IF measured THEN "measured" ELSE "no server",
                      !.connections = IF measured THEN ConnectionsOf(state) ELSE 0]
    /\ run' = NoRun
    /\ call' = [call EXCEPT !.pc = "menu", !.last = "run_test"]
    /\ UNCHANGED <<state, now, cookies_file, phase, cancelled_error_is_exception,
                   host, num_connections, max_duration, test_duration,
                   progress_data, progress_lock, worker, orch, monitor, ping_queue,
                   result, raised, env>>

\* AuthManager.logout and lines 2566-2569: State.logout is called whatever
\* was answered; the request of logout_with_cookies changes nothing here
menu_logout ==
    /\ At("logout")
    /\ \E confirm \in {"y", "n", "^C"}, enter \in {"", "^C"} :
         /\ cookies_file' = IF confirm = "y"
                            THEN delete_cookies(cookies_file, state.current_user)
                            ELSE cookies_file
         /\ state' = IF confirm = "^C" \/ enter = "^C" THEN state
                     ELSE StateLogout(state)
         /\ hist' = [hist EXCEPT
                       !.confirm = confirm,
                       !.outcome = IF confirm = "^C" \/ enter = "^C"
                                   THEN "interrupted" ELSE "returned"]
    /\ call' = [call EXCEPT !.pc = "menu", !.last = "logout"]
    /\ UNCHANGED Screen
\* what the config endpoint may answer: no answer, a config without a server
\* list, an empty list, a list of servers
AppConfigs ==
    {NoConfig, [status |-> "ok"], [servers |-> <<>>],
     [servers |-> AppServers, clientAuth |-> ClientAuth, guid |-> "g"]}

\* ServerManager.fetch_server_config and fetch_search_results: the file after
\* the call that received config_data
fetch_server_config(file, user_email, config_data, t) ==
    LET anonymous == user_email = ""
        email == IF anonymous THEN "anonymous_user" ELSE user_email
        opened == IF anonymous THEN get_or_create_anonymous_user(file, t) ELSE file
    IN  IF config_data # NoConfig /\ "clientAuth" \in DOMAIN config_data
               /\ "token" \in DOMAIN config_data.clientAuth
        THEN save_client_auth(opened, email, config_data.clientAuth,
                              IF "guid" \in DOMAIN config_data
                              THEN Some(config_data.guid) ELSE None)
        ELSE opened

SelectInputs == {"0", "1", "2", "3", "x", "^C"}

\* what a selection screen returns or raises
Selected(file, server, outcome) == [file |-> file, server |-> server, outcome |-> outcome]

\* ServerSelectionUI.search_server: the possible results
search_server(file, current_user, t) ==
    {Selected(file, None, "empty query")}
    \cup UNION {
        LET searched == fetch_server_config(file, current_user, config, t)
        IN  IF config = NoConfig \/ "servers" \notin DOMAIN config
                   \/ config.servers = <<>>
            THEN {Selected(searched, None, "none found")}
            ELSE {LET choice_num == IntOf(choice)
                      servers == config.servers
                  IN  IF choice = "^C" THEN Selected(searched, None, "interrupted")
                      ELSE IF choice_num = None
                      THEN Selected(searched, None, "invalid input")
                      ELSE IF 1 <= choice_num.value /\ choice_num.value <= Len(servers)
                      THEN Selected(searched, Some(servers[choice_num.value]), "selected")
                      ELSE Selected(searched, None, "out of range") :
                  choice \in SelectInputs} :
        config \in AppConfigs}

\* ServerSelectionUI.select_server: the possible results
select_server(file, current_user, t) ==
    UNION {
        LET fetched == fetch_server_config(file, current_user, config, t)
        IN  IF config = NoConfig \/ "servers" \notin DOMAIN config
            THEN {Selected(fetched, None, "load failed")}
            ELSE UNION {
                LET choice_num == IntOf(choice)
                    servers == config.servers
                IN  IF choice = "^C" THEN {Selected(fetched, None, "interrupted")}
                    ELSE IF choice_num = None
                    THEN {Selected(fetched, None, "invalid input")}
                    ELSE IF choice_num.value = 0
                    THEN IF servers = <<>>
                         THEN {Selected(fetched, None, "no servers")}
                         ELSE {Selected(fetched, Some(sv), "selected") :
                                  sv \in Range(servers)}
                    ELSE IF 1 <= choice_num.value /\ choice_num.value <= Len(servers)
                    THEN {Selected(fetched, Some(servers[choice_num.value]), "selected")}
                    ELSE IF choice_num.value = Len(servers) + 1
                    THEN search_server(fetched, current_user, t)
                    ELSE {Selected(fetched, None, "out of range")} :
                choice \in SelectInputs} :
        config \in AppConfigs}

\* lines 2531-2535: the server returned is stored, None included
menu_select_server ==
    /\ At("select_server")
    /\ \E r \in select_server(cookies_file, state.current_user, now) :
         /\ cookies_file' = r.file
         /\ state' = IF r.outcome = "interrupted" THEN state
                     ELSE set_server(state, r.server)
         /\ hist' = [hist EXCEPT !.outcome = r.outcome]
    /\ call' = [call EXCEPT !.pc = "menu", !.last = "select_server"]
    /\ UNCHANGED Screen
\* the cookies of fetch_session_cookie, those of the login response, and the
\* Max-Age of its Set-Cookie header, in ticks of the application clock
SessionCookies == [sid |-> "s1"]
ResponseCookies == {[auth |-> "a1"]}
MaxAge == 1

\* {**session_cookies} updated with the cookies of the response
Merge(session_cookies, response_cookies) ==
    [k \in DOMAIN session_cookies \cup DOMAIN response_cookies |->
        IF k \in DOMAIN response_cookies THEN response_cookies[k]
        ELSE session_cookies[k]]

Passwords == {"pw", "bad"}

\* the login endpoint: 302 for the account's password, 200 for another;
\* 500 stands for any other status and 0 for a request that raised
LoginStatuses(email, password) ==
    IF email # "" /\ password = "pw" THEN {302, 500, 0} ELSE {200, 500, 0}

Fetched(file, user_data) == [file |-> file, user_data |-> user_data]

\* LoginManager.fetch_user_details: the possible results; the profile is
\* saved when the page shows a logged-in user
fetch_user_details(file, email, t) ==
    IF ~NotEmpty(load_cookies(file, email)) THEN {Fetched(file, None)}
    ELSE {Fetched(file, None),
          Fetched(save_user_data(file, email, UserData, t), Some(UserData))}

Verified(file, ok) == [file |-> file, ok |-> ok]

\* LoginManager.verify_cached_login: the possible results
verify_cached_login(file, email, t) ==
    IF ~NotEmpty(load_cookies(file, email)) THEN {Verified(file, FALSE)}
    ELSE {Verified(file, FALSE)}
         \cup {Verified(d.file, d.user_data # None) :
                  d \in fetch_user_details(file, email, t)}

LoggedIn(file, returned, status) == [file |-> file, result |-> returned, status |-> status]

\* login_with_credentials with the cookies saved before the status is looked at
login_saves_first(file, email, password, t) ==
    {LoggedIn(save_cookies(file, email, SessionCookies, None, t),
              IF status = 302 THEN Some(email) ELSE None, status) :
        status \in LoginStatuses(email, password)}

\* LoginManager.login_with_credentials: the possible results
login_with_credentials(file, email, password, t) ==
    {LoggedIn(file, None, 0)}
    \cup UNION {
        IF status # 302 THEN {LoggedIn(file, None, status)}
        ELSE UNION {
            {LoggedIn(d.file, Some(email), status) :
                d \in fetch_user_details(
                          save_cookies(file, email,
                                       Merge(SessionCookies, response_cookies),
                                       expiration, t),
                          email, t)} :
            response_cookies \in ResponseCookies,
            expiration \in {None, Some(t + MaxAge)}} :
        status \in LoginStatuses(email, password)}

\* what AuthManager.login returns or raises, and what it went through
Login(r, password_asked, selected, verified) ==
    [file |-> r.file, result |-> r.result, status |-> r.status,
     password_asked |-> password_asked, selected |-> selected,
     verified |-> verified, outcome |-> "returned"]

\* "if result:" of lines 946, 964, 978 and 1001
Checked(l) == IF l.result # None /\ l.result.value = "" THEN [l EXCEPT !.result = None] ELSE l

\* lines 973-983 and 996-1006: a new login
NewLogin(file, t) ==
    UNION {{Checked(Login(r, TRUE, None, FALSE)) :
               r \in login_with_credentials(file, email, password, t)} :
           email \in AppEmails, password \in Passwords}

\* lines 938-970: a cached user is selected
CachedLogin(file, selected_email, t) ==
    IF is_cookie_expired(file, selected_email, t)
    THEN UNION {{Checked(Login(r, TRUE, Some(selected_email), FALSE)) :
                    r \in login_with_credentials(file, selected_email, password, t)} :
                password \in Passwords}
    ELSE UNION {
        IF v.ok
        THEN {Login(LoggedIn(v.file, Some(selected_email), 0), FALSE,
                    Some(selected_email), TRUE)}
        ELSE UNION {{Checked(Login(r, TRUE, Some(selected_email), FALSE)) :
                        r \in login_with_credentials(v.file, selected_email,
                                                     password, t)} :
                    password \in Passwords} :
        v \in verify_cached_login(file, selected_email, t)}

\* AuthManager.login: the possible results; the number typed selects a cached
\* user, the new login, or nothing
login(file, t) ==
    LET cached_users == get_cached_users(file) \ {"anonymous_user"}
        unchanged == LoggedIn(file, None, 0)
    IN  {[Login(unchanged, FALSE, None, FALSE) EXCEPT !.outcome = "interrupted"]}
        \cup IF cached_users # {}
             THEN {Login(unchanged, FALSE, None, FALSE)}
                  \cup NewLogin(file, t)
                  \cup UNION {CachedLogin(file, selected_email, t) :
                                 selected_email \in cached_users}
             ELSE NewLogin(file, t)

\* lines 2525-2529
menu_login ==
    /\ At("login")
    /\ \E l \in login(cookies_file, now) :
         /\ cookies_file' = l.file
         /\ state' = IF l.outcome = "returned" /\ l.result # None
                     THEN StateLogin(state, l.result.value) ELSE state
         /\ hist' = [hist EXCEPT
                       !.outcome = l.outcome, !.password_asked = l.password_asked,
                       !.selected = l.selected, !.status = l.status,
                       !.verified = l.verified]
         /\ call' = [call EXCEPT !.pc = "menu", !.last = "login",
                                 !.login_result = l.result]
    /\ UNCHANGED Screen

\* time passes while the menu waits for a choice
time_passes ==
    /\ At("choice")
    /\ now < MaxClock
    /\ now' = now + 1
    /\ UNCHANGED <<state, call, hist, cookies_file, Measurement>>

\* the file an earlier session may have left: the cookies of a login that
\* expire at the start of the clock
EarlierSession == save_cookies(NoFile, "a@x", SessionCookies, Some(0), 0)

InitApp ==
    /\ NoMeasurement
    /\ state = NewState
    /\ now = 0
    /\ call = AppCall("menu")
    /\ cookies_file \in {NoFile, EarlierSession}
    /\ hist = Begin("none")

NextApp ==
    \/ show_menu
    \/ handle_menu_choice
    \/ menu_login
    \/ menu_select_server
    \/ run_test_select_server
    \/ menu_run_test_done
    \/ show_settings
    \/ select_speedtest_mode
    \/ set_parallel_connections
    \/ menu_logout
    \/ time_passes

SpecApp == InitApp /\ [][NextApp]_vars


(***************************************************************************)
(* The properties.                                                         *)
(***************************************************************************)
\* n / d in lowest terms, for a divisor of either sign
Quotient(n, d) ==
    IF d > 0 THEN Frac(n, d)
    ELSE LET f == Frac(n, 0 - d) IN <<0 - f[1], f[2]>>

DownloadReturned ==
    phase = "download" /\ orch.pc = "returned" /\ "error" \notin DOMAIN result

UploadReturned ==
    phase = "upload" /\ orch.pc = "returned" /\ "error" \notin DOMAIN result

\* C1: every result of run_download_test reports the speed
\* bytes*8/(duration*1e6), computed from the bytes and the duration it returns
C1_SpeedFromReturnedTotals ==
    (DownloadReturned /\ result.duration # 0)
        => result.speed = Quotient(result.bytes * 8 * TicksPerSecond,
                                   result.duration * 1000000)

\* C2: every byte added to the shared count of the upload was generated while
\* the elapsed time was inside the window from 3 s to 12 s
C2_OnlyWindowBytesCounted ==
    phase = "upload" => hist.counted_outside = 0

\* C3: no exception leaves run_download_test or run_upload_test, the
\* cancellation error of the cancelled monitor task included
C3_NoExceptionLeavesPhase ==
    orch.pc # "raised" /\ raised = ""

C5_FailureEscalates ==
    [][\A i \in Conns :
          (i \in hist'.failed /\ i \notin hist.failed
                /\ i \notin hist'.connect_failed)
            => IF num_connections > 1
               THEN progress_data'.stop /\ ~progress_data'.connection_status[i]
               ELSE /\ progress_data'.stop = progress_data.stop
                    /\ progress_data'.connection_status
                            = progress_data.connection_status]_vars

\* C6: a phase whose every worker failed to connect returns a zero-valued
\* result with an error marker
C6_NoConnectionIsFailure ==
    (orch.pc = "returned" /\ ~NoHost /\ hist.connect_failed = Conns)
        => /\ "error" \in DOMAIN result
           /\ result.speed = Zero /\ result.bytes = 0 /\ result.duration = 0

\* C7: without a host the phase returns at once the zero result with the
\* error marker, and starts neither the monitor task nor a worker thread
C7_NoHostReturnsAtOnce ==
    (host = "" /\ orch.pc # "entry")
        => /\ orch.pc = "returned" /\ now = 0
           /\ "error" \in DOMAIN result
           /\ result.speed = Zero /\ result.bytes = 0 /\ result.duration = 0
           /\ result.latency = <<>>
           /\ monitor.pc = "none"
           /\ \A i \in Conns : worker[i].pc = "idle"

C7_Witness == host = "" /\ orch.pc = "returned" /\ "error" \in DOMAIN result

\* C8: a ping phase without samples leaves the ping statistics of the report
\* empty
C8_NoSynthesizedPing ==
    (run.pc \in {"download", "downloading", "upload", "uploading", "report"}
        /\ run.server # NoServer /\ ~Truthy(run.ping_times))
        => run.ping_stats = EmptyDict

\* C9: the report of a run in which the download or the upload phase returned
\* a failed result carries a failure marker
C9_FailedPhaseMarked ==
    (run.pc = "returned"
        /\ ("error" \in DOMAIN run.download_result
            \/ "error" \in DOMAIN run.upload_result))
        => "error" \in DOMAIN run.report

\* C10: the speed of an upload result is the counted bytes over the length of
\* the window in which the workers could count: from 3 s to the sooner of
\* 12 s and the moment the stop flag was set
C10_SpeedOverCountingWindow ==
    UploadReturned
        => LET windowStart == measurement_start
               windowEnd == SetMin({measurement_end, hist.stop_elapsed})
           IN  windowEnd > windowStart
                  => result.speed =
                        Frac(result.bytes * 8 * TicksPerSecond,
                             (windowEnd - windowStart) * 1000000)

\* the bytes the workers have read so far: the sum of their bytes_dl
WorkerBytes == SumSeq([k \in 1..num_connections |-> worker[k - 1].bytes_dl])

\* C11: the bytes a download result reports are the sum of the bytes every
\* worker had read when it stopped, the workers that finish an in-flight read
\* long after the stop flag was set included
C11_TotalIsSumOfWorkers ==
    DownloadReturned => result.bytes = WorkerBytes

\* the most recent min_samples entries of the samples of the call
TailOfCall == LastN(call.speed_samples, call.min_samples)

\* C12: is_speed_stable returns true exactly when, over the most recent
\* min_samples entries, the mean is not zero and stddev / mean is below the
\* threshold the caller passed
C12_StableIffBelowThreshold ==
    (call.fn = "is_speed_stable" /\ call.returned
        /\ Len(call.speed_samples) >= call.min_samples)
        => (call.result <=> /\ SumSeq(TailOfCall) # 0
                            /\ CVBelow(TailOfCall, call.threshold))

\* C13: is_speed_stable returns false whenever it is given fewer than
\* min_samples samples, whatever the threshold and the samples
C13_TooFewSamplesUnstable ==
    (call.fn = "is_speed_stable" /\ call.returned
        /\ Len(call.speed_samples) < call.min_samples)
        => call.result = FALSE

C13_Witness ==
    /\ call.fn = "is_speed_stable" /\ call.returned
    /\ call.speed_samples # <<>>
    /\ Len(call.speed_samples) < call.min_samples
    /\ call.result = FALSE

\* avg, a fraction <<n, d>> with d > 0, lies between the whole numbers lo and hi
Between(lo, avg, hi) == lo * avg[2] <= avg[1] /\ avg[1] <= hi * avg[2]

\* C14: the statistics of every non-empty sequence of latency samples, of the
\* ping phase and of the two throughput phases, have min <= avg <= max, a
\* median that is one of the samples, and the number of samples as count
C14_StatsWithinSamples ==
    (call.fn \in {"calculate_ping_stats", "latency_stats"} /\ call.returned
        /\ call.ping_times # <<>>)
        => /\ {"min", "avg", "max", "median", "count"} \subseteq DOMAIN call.result
           /\ Between(call.result.min, call.result.avg, call.result.max)
           /\ call.result.median \in Range(call.ping_times)
           /\ call.result.count = Len(call.ping_times)

\* C18: a throughput phase whose monitor never produced a sample, because it
\* could not connect or lost every probe, still comes to its end and returns
\* a result without an error marker, with empty latency statistics
C18_MonitorFailureHarmless ==
    (PhaseOver /\ phase \in {"download", "upload"} /\ ~NoHost
        /\ monitor.ping_times = <<>>)
        => /\ orch.pc = "returned"
           /\ "error" \notin DOMAIN result
           /\ result.latency = EmptyDict /\ result.samples = 0
           /\ result.bytes = orch.total_bytes
           /\ result.speed = OverallSpeed(orch.total_bytes, orch.total_duration)

\* the samples of the final copy that were collected at or after the ramp-up
\* time of skip_duration seconds
CollectedAfterRampUp ==
    LET late == {k \in 1..hist.copied :
                    hist.sample_times[k] >= skip_duration * TicksPerSecond}
        Pick[k \in 0..hist.copied] ==
            IF k = 0 THEN <<>>
            ELSE IF k \in late THEN Append(Pick[k - 1], progress_data.speed_samples[k])
            ELSE Pick[k - 1]
    IN  Pick[hist.copied]

\* C19: the speed samples a download phase retains are exactly those collected
\* at or after 3 s of elapsed time
C19_RampUpSamplesDiscarded ==
    (phase = "download" /\ ~NoHost /\ orch.pc \in {"wait", "wait_sleep", "finish",
                                                  "retry", "retry_sleep", "returned"})
        => orch.all_speed_samples = CollectedAfterRampUp

\* the polling loop of the download has been left
DownloadEnded ==
    phase = "download" /\ ~NoHost /\ orch.pc \notin {"entry", "poll", "sleep"}

PingPhaseOver == call.fn = "run_ping_test" /\ call.returned

\* C15: the ping value of the report is the arithmetic mean of the round-trip
\* times of the answered probes of the ping phase, and the sample count is
\* the number of those probes, at most the 10 probes sent
C15_PingIsMeanOfReplies ==
    (run.pc = "returned" /\ PingPhaseOver /\ call.i = call.num_pings)
        => /\ run.ping_stats.count = Len(call.rtts)
           /\ Len(call.rtts) <= num_pings
           /\ call.rtts # <<>>
                => run.report.ping = Frac(SumSeq(call.rtts), Len(call.rtts))

\* C16: a probe that times out or fails, in the ping phase and in the
\* background monitor, adds no sample, uses up its sequence number and leaves
\* the loop running; the loop of the ping phase ends only after its last
\* probe, that of the monitor only at its deadline
C16_LostProbeKeepsLoop ==
    [][/\ (call.fn = "run_ping_test" /\ call'.fn = "run_ping_test"
                /\ call'.lost = call.lost + 1)
            => /\ call'.ping_times = call.ping_times
               /\ call'.i = call.i + 1
               /\ ~call'.returned
       /\ (call.fn = "run_ping_test" /\ call'.fn = "run_ping_test"
                /\ call.pc = "probe" /\ call'.returned)
            => call.i = call.num_pings
       /\ (hist'.lost_probes = hist.lost_probes + 1)
            => /\ monitor'.ping_times = monitor.ping_times
               /\ ping_queue' = ping_queue
               /\ monitor'.ping_count = monitor.ping_count + 1
               /\ monitor'.pc = "sleep_err"
       /\ (monitor.pc \in {"probe", "sleep_ok", "sleep_err"}
                /\ monitor'.pc = "done" /\ ~monitor.cancel_requested)
            => now - monitor.start_time >= monitor.duration]_vars

C16_Witness ==
    /\ PingPhaseOver /\ call.lost > 0 /\ Truthy(call.result)
    /\ hist.lost_probes > 0 /\ monitor.ping_times # <<>>
    /\ monitor.pc = "done" /\ ~cancelled_error_is_exception

\* s is an initial part of t
IsPrefix(s, t) == Len(s) <= Len(t) /\ s = SubSeq(t, 1, Len(s))

\* C17: run_test starts the ping, the download and the upload phase in this
\* order, one after the end of the other, and with a server selected it
\* starts all three, whatever became of the earlier ones
C17_PhasesInOrder ==
    /\ IsPrefix(run.order, <<"ping", "download", "upload">>)
    /\ phase \in {"download", "upload"} => PingPhaseOver
    /\ run.pc = "upload" => PhaseOver /\ \A i \in Conns : worker[i].pc \in {"idle", "done"}
    /\ run.pc = "report" => PhaseOver /\ \A i \in Conns : worker[i].pc \in {"idle", "done"}
    /\ (run.server # NoServer /\ run.pc \notin {"start", "ping", "pinging", "download",
                                               "downloading", "upload", "uploading"})
            => /\ run.pc \in {"report", "returned"}
               /\ run.order = <<"ping", "download", "upload">>

\* C21: within a phase the stop flag, once set, is never cleared, and a worker
\* that reaches its next I/O boundary with the flag set issues no further read
\* (download) or body write (upload); of the transfer that was in progress
\* when the flag was set it adds at most one update to the shared count
C21_StopIsFinalAndObeyed ==
    [][progress_data.stop
          => /\ progress_data'.stop
             /\ \A i \in Conns :
                  /\ (phase = "download" /\ worker[i].pc = "loop")
                        => worker'[i].pc \in {"loop", "done"}
                  /\ (phase = "upload" /\ worker[i].pc = "sending")
                        => worker'[i].pc \in {"sending", "response", "done"}
                  /\ hist'.late_adds[i] <= 1]_vars

C21_Witness ==
    /\ progress_data.stop /\ orch.pc = "returned"
    /\ \A i \in Conns : worker[i].pc = "done"
    /\ \E i \in Conns : hist.late_adds[i] = 1

\* the thread that takes the step holds progress_lock
StepHoldsLock ==
    \/ orch' # orch /\ MainThread \in progress_lock
    \/ \E i \in Conns : worker'[i] # worker[i] /\ WorkerThread(i) \in progress_lock

ReportedBy(i) ==
    IF worker[i].pc = "set_last" THEN worker[i].bytes_dl ELSE worker[i].last_bytes

\* C23: when the polling loop of a download reads its snapshot under the lock,
\* a connection marked unhealthy comes with the stop flag set, no worker is
\* half way through an update or a mark, and the byte count is the sum of the
\* updates the workers have completed
C23_SnapshotConsistent ==
    (phase = "download" /\ orch.pc = "snapshot")
        => /\ (\E i \in Conns : ~progress_data.connection_status[i])
                    => progress_data.stop
           /\ \A i \in Conns : worker[i].pc \notin {"mark_stop", "add_samples"}
           /\ progress_data.bytes
                = SumSeq([k \in 1..num_connections |-> ReportedBy(k - 1)])

C23_Witness ==
    /\ phase = "download" /\ orch.pc = "snapshot"
    /\ \E i \in Conns : ~progress_data.connection_status[i]
    /\ progress_data.stop /\ progress_data.bytes > 0
    /\ \E i \in Conns : worker[i].pc = "want_add"

\* C24: within a phase no step lowers the shared byte count, and no step
\* turns the health flag of a connection from unhealthy back to healthy
C24_BytesAndHealthMonotonic ==
    [][/\ progress_data'.bytes >= progress_data.bytes
       /\ \A i \in Conns :
            progress_data'.connection_status[i]
                => progress_data.connection_status[i]]_vars

C24_Witness ==
    /\ progress_data.bytes > chunk_size
    /\ \A i \in Conns : ~progress_data.connection_status[i]
    /\ num_connections > 1

\* the event-loop thread waits for a worker: in future.result(timeout=1) of a
\* future that is not done, or at the exit of the executor block
EventLoopWaitsForWorker ==
    \/ /\ phase = "download" /\ orch.pc = "collect"
       /\ orch.fut < num_connections /\ ~FutureDone(orch.fut)
    \/ orch.pc = "shutdown" /\ \E i \in Conns : ~FutureDone(i)

\* C25: while a worker thread is still running, the event-loop thread never
\* spends time blocked in a wait for a worker, so that the monitor task can
\* be scheduled
C25_EventLoopNeverBlocked ==
    [][(EventLoopWaitsForWorker /\ \E i \in Conns : worker[i].pc # "done")
            => now' = now]_vars

\* C26: the monitor is cancelled only once the straggler wait is over, at
\* the end of the drain every sample that the monitor has put on the queue has
\* been taken from it, and the samples taken are the ones the latency
\* statistics of the result are computed from
C26_CancelledAfterCompleteDrain ==
    /\ monitor.cancel_requested
            => /\ orch.pc \in {"retry", "retry_sleep", "returned", "raised"}
               /\ now - orch.wait_start >= StragglerWait
    /\ orch.pc = "finish" => ping_queue = <<>>
    /\ (orch.pc = "returned" /\ "error" \notin DOMAIN result
            /\ orch.ping_times # <<>> /\ orch.ping_times # <<0>>)
            => /\ result.latency # EmptyDict
               /\ result.latency.count = Len(orch.ping_times)

\* C27: a sample is on the queue as soon as the monitor has recorded it: as
\* long as the phase runs, the samples taken from the queue followed by the
\* ones still on it are the monitor's own list, and at every moment the
\* samples of the phase are, in order, a prefix of that list
C27_QueueFollowsMonitor ==
    /\ IsPrefix(orch.ping_times, monitor.ping_times)
    /\ ~PhaseOver => orch.ping_times \o ping_queue = monitor.ping_times

C27_Witness ==
    /\ orch.ping_times # <<>> /\ ping_queue # <<>>
    /\ monitor.pc = "sleep_ok" /\ orch.pc = "wait_sleep"

\* C28: every sample of the monitor is taken from the reply to the probe it
\* is the sample of: the reply of a probe that timed out is never taken as
\* the reply of a later probe
C28_SampleOfOwnReply ==
    \A k \in 1..Len(hist.reply_lag) : hist.reply_lag[k] = 0

\* the sum over the workers of a field of their locals
WorkerSum(field) == SumSeq([k \in 1..num_connections |-> worker[k - 1][field]])

\* C29, as claimed: at every point of a download the shared byte count is the
\* sum of the workers' last_bytes and is at most the sum of the bytes read
C29_BytesAreLastReported ==
    phase = "download"
        => /\ progress_data.bytes = WorkerSum("last_bytes")
           /\ progress_data.bytes <= WorkerSum("bytes_dl")

\* C29, as amended: the shared byte count is the sum of the workers'
\* last_bytes at every point at which no worker is between the addition of
\* its delta (line 1444) and the assignment of last_bytes (line 1448), and it
\* is at every point at most the sum of the bytes the workers have read
C29_BytesAreLastReportedOutsideUpdate ==
    phase = "download"
        => /\ (\A i \in Conns : worker[i].pc \notin {"add_samples", "set_last"})
                => progress_data.bytes = WorkerSum("last_bytes")
           /\ progress_data.bytes <= WorkerSum("bytes_dl")

C29_Witness ==
    /\ phase = "download" /\ num_connections > 1
    /\ \A i \in Conns : worker[i].pc \notin {"add_samples", "set_last"}
    /\ \E i \in Conns : worker[i].last_bytes = 2 * chunk_size
    /\ \E i \in Conns : /\ worker[i].bytes_dl > worker[i].last_bytes
                        /\ worker[i].last_bytes > 0

\* C30: once the orchestrator of an upload has read the final byte count, no
\* worker adds bytes to the shared count: the count that was read, which is the
\* one reported, is the value of the shared count from then on
C30_NoAddAfterFinalRead ==
    (phase = "upload" /\ orch.pc \in {"shutdown", "wait", "wait_sleep", "finish"})
        => orch.final_bytes = progress_data.bytes

\* C31: every result returned by run_download_test or run_upload_test has a
\* duration that is not negative, and a result with bytes > 0 has a positive
\* duration, a phase that stops within the first half second included
C31_DurationNotNegative ==
    (DownloadReturned \/ UploadReturned)
        => /\ result.duration >= 0
           /\ result.bytes > 0 => result.duration > 0

\* C37: load_cookies(email) returns exactly the cookie dict of the latest
\* save_cookies(email, ...) that no delete followed, and None when no cookies
\* were saved for the e-mail, whatever calls of save_user_data and
\* _save_client_auth came in between: never profile or client-auth data
C37_LoadReturnsLatestSave ==
    (call.fn = "load_cookies" /\ call.returned)
        => call.result = IF call.email \in DOMAIN hist.saved
                         THEN Some(hist.saved[call.email]) ELSE None

\* C32: for every menu built by print_menu and every item number shown in it,
\* handle_menu_choice executes the action of the item displayed under that
\* number, whatever the user's name and the server's display name are
C32_ChoiceRunsItemShown ==
    [][(At("choice") /\ call'.last = "choice") => call'.pc = hist'.shown]_vars

\* C33: if the user chooses Logout and then declines the confirmation, the
\* application state is unchanged: the user stays logged in with the same
\* current_user and the cached cookies are kept
C33_DeclinedLogoutChangesNothing ==
    [][(At("logout") /\ hist'.confirm = "n" /\ hist'.outcome = "returned")
          => /\ state' = state
             /\ cookies_file' = cookies_file]_vars

\* C34: when Select Server fails to load servers, receives an invalid or
\* out-of-range input, or a search finds no server, the server selected
\* before is left unchanged
C34_FailedSelectionKeepsServer ==
    [][(At("select_server")
            /\ hist'.outcome \in {"load failed", "invalid input", "out of range",
                                  "none found"})
          => state'.selected_server = state.selected_server]_vars

\* C35: after any sequence of settings operations parallel_connections is an
\* integer in 1..64 and speedtest_mode is 'multiple' or 'single'; a test then
\* uses parallel_connections connections in multiple mode and exactly 1
\* connection in single mode
C35_SettingsStayValid ==
    call.fn = "app"
        => /\ state.parallel_connections \in 1..64
           /\ state.speedtest_mode \in {"multiple", "single"}
           /\ (call.last = "run_test" /\ hist.outcome = "measured")
                  => hist.connections = IF state.speedtest_mode = "multiple"
                                        THEN state.parallel_connections ELSE 1

C35_Witness ==
    /\ call.fn = "app" /\ call.last = "run_test" /\ hist.outcome = "measured"
    /\ state.speedtest_mode = "single"
    /\ state.parallel_connections = 64
    /\ hist.connections = 1

\* C36: login returns a cached user's e-mail without asking for a password
\* only if that user's stored cookies are not expired and verify_cached_login
\* succeeded; otherwise it returns an e-mail only when login_with_credentials
\* got HTTP 302; a failed login leaves the cookie store unchanged
C36_LoginOnlyVerifiedOrAuthenticated ==
    [][(At("login") /\ hist'.outcome = "returned")
          => LET returned == call'.login_result
             IN  /\ (returned # None /\ ~hist'.password_asked)
                        => /\ returned.value \in get_cached_users(cookies_file)
                           /\ LET stored == cookies_file.data[returned.value]
                              IN  ("expires_at" \in DOMAIN stored
                                      /\ stored.expires_at # None)
                                     => now <= stored.expires_at.value
                           /\ hist'.verified
                 /\ (returned # None /\ hist'.password_asked) => hist'.status = 302
                 /\ returned = None => cookies_file' = cookies_file]_vars

C36_Witness ==
    /\ call.fn = "app" /\ call.last = "login"
    /\ call.login_result = Some("a@x")
    /\ ~hist.password_asked /\ hist.verified
    /\ state.is_logged_in /\ state.current_user = "a@x"

====
